---- MODULE Spec2Model ----
(***************************************************************************)
(* Verification model of chipa-ta: streaming indicators, the condition     *)
(* tree, the strategy node tree and the Strategy warm-up state machine.    *)
(*                                                                         *)
(* f64 values are modelled as exact rationals <<n, d>> (d > 0, lowest      *)
(* terms); NaN and infinities are not produced by the inputs used here.    *)
(***************************************************************************)
EXTENDS Integers, Sequences, FiniteSets, TLC

(***************************************************************************)
(* Bounds                                                                  *)
(***************************************************************************)
MaxCalls == 4
MaxSteps == 5
MaxPeriod == 2
MaxCap == 3
MaxPushes == 5
MaxDim == 3
MaxDoublings == 2

(***************************************************************************)
(* Option<T>                                                               *)
(***************************************************************************)
None == [some |-> FALSE]
Some(x) == [some |-> TRUE, v |-> x]
IsSome(o) == o.some
IsNone(o) == ~o.some

(***************************************************************************)
(* f64 as exact rationals                                                  *)
(***************************************************************************)
Abs(x) == IF x < 0 THEN -x ELSE x

RECURSIVE GCD(_, _)
GCD(a, b) == IF b = 0 THEN a ELSE GCD(b, a % b)

Rat(n, d) ==
    LET s == IF d < 0 THEN -1 ELSE 1
        g == GCD(Abs(n), Abs(d))
    IN  <<(s * n) \div g, (s * d) \div g>>

F(n) == <<n, 1>>
RAdd(a, b) == Rat(a[1] * b[2] + b[1] * a[2], a[2] * b[2])
RSub(a, b) == Rat(a[1] * b[2] - b[1] * a[2], a[2] * b[2])
RMul(a, b) == Rat(a[1] * b[1], a[2] * b[2])
RDiv(a, b) == Rat(a[1] * b[2], a[2] * b[1])
RLt(a, b) == a[1] * b[2] < b[1] * a[2]
RGt(a, b) == RLt(b, a)
RMax(a, b) == IF RLt(a, b) THEN b ELSE a
RMin(a, b) == IF RLt(b, a) THEN b ELSE a

RECURSIVE RSum(_)
RSum(s) == IF s = <<>> THEN F(0) ELSE RAdd(s[1], RSum(Tail(s)))

RECURSIVE RMaxOf(_)
RMaxOf(s) == IF Len(s) = 1 THEN s[1] ELSE RMax(s[1], RMaxOf(Tail(s)))

RECURSIVE RMinOf(_)
RMinOf(s) == IF Len(s) = 1 THEN s[1] ELSE RMin(s[1], RMinOf(Tail(s)))

(***************************************************************************)
(* MarketData::Bar and the Candle accessors                                *)
(***************************************************************************)
Bar(o, h, l, c, v) == [open |-> o, high |-> h, low |-> l, close |-> c, volume |-> v]
Bars == { Bar(1, 2, 1, 2, 1), Bar(2, 3, 1, 1, 2), Bar(2, 4, 2, 3, 1) }

open(data) == F(data.open)
close(data) == F(data.close)
high(data) == F(data.high)
low(data) == F(data.low)
volume(data) == F(data.volume)

(***************************************************************************)
(* TaResult<T>                                                             *)
(***************************************************************************)
Ok(x) == [ok |-> TRUE, v |-> x]
Err(e) == [ok |-> FALSE, err |-> e]

(***************************************************************************)
(* OutputShape                                                             *)
(***************************************************************************)
Shape(size) == [kind |-> "Shape", size |-> size]
Tensor(shapes) == [kind |-> "Tensor", shapes |-> shapes]

\* a validate that keeps a Tensor of Shape(1)s as it is
OutputShapeValidate_KeepsTensor(shape) ==
    IF shape.kind = "Shape" /\ shape.size > 0 THEN Ok(shape)
    ELSE IF shape.kind = "Tensor" /\ shape.shapes # <<>> THEN Ok(shape)
    ELSE Err("InvalidOutputShape")

\* OutputShape::validate
RECURSIVE OutputShapeValidate(_)
RECURSIVE OutputShapeValidateAll(_, _)
OutputShapeValidateAll(shapes, i) ==
    IF i > Len(shapes) THEN Ok("unit")
    ELSE IF OutputShapeValidate(shapes[i]).ok THEN OutputShapeValidateAll(shapes, i + 1)
    ELSE OutputShapeValidate(shapes[i])
OutputShapeValidate(shape) ==
    IF shape.kind = "Shape" /\ shape.size > 0 THEN Ok(shape)
    ELSE IF shape.kind = "Tensor" /\ shape.shapes # <<>>
         THEN IF \A i \in 1..Len(shape.shapes) : shape.shapes[i] = Shape(1)
              THEN Ok(Shape(Len(shape.shapes)))
              ELSE IF OutputShapeValidateAll(shape.shapes, 1).ok THEN Ok(shape)
              ELSE OutputShapeValidateAll(shape.shapes, 1)
    ELSE Err("InvalidOutputShape")

(***************************************************************************)
(* OutputType                                                              *)
(***************************************************************************)
Single(x) == [tag |-> "Single", v |-> x]
Array(a) == [tag |-> "Array", arr |-> a]
Placeholder(t) == [tag |-> t]
Custom(vec) == [tag |-> "Custom", vec |-> vec]
Static(s) == [tag |-> "Static", s |-> s]
Statics(vec) == [tag |-> "Statics", vec |-> vec]

\* f64::NAN; the rationals have a positive denominator
NaN == <<0, 0>>
IsNaN(a) == a[2] = 0

(***************************************************************************)
(* math::base.  An index or a slice out of range ends the call in a panic. *)
(***************************************************************************)
Panic(msg) == [panic |-> msg]

\* mean
mean(prices) ==
    IF prices = <<>> THEN Err("EmptyIterator")
    ELSE Ok(RDiv(RSum(prices), F(Len(prices))))

\* cmp_f64
cmp_f64(a, b) == IF RLt(a, b) THEN "Less" ELSE IF RGt(a, b) THEN "Greater" ELSE "Equal"

\* the filter_map of median: the prices that are not NaN, in order
RECURSIVE WithoutNaN(_)
WithoutNaN(prices) ==
    IF prices = <<>> THEN <<>>
    ELSE IF IsNaN(prices[1]) THEN WithoutNaN(Tail(prices))
    ELSE <<prices[1]>> \o WithoutNaN(Tail(prices))

\* sort_by(cmp_f64), a stable sort
RECURSIVE InsertSorted(_, _)
InsertSorted(sorted, x) ==
    IF sorted = <<>> THEN <<x>>
    ELSE IF cmp_f64(x, sorted[1]) = "Less" THEN <<x>> \o sorted
    ELSE <<sorted[1]>> \o InsertSorted(Tail(sorted), x)

RECURSIVE SortByCmp(_)
SortByCmp(v) ==
    IF v = <<>> THEN <<>> ELSE InsertSorted(SortByCmp(SubSeq(v, 1, Len(v) - 1)), v[Len(v)])

\* median: `middle` is taken from the length of the input, the elements from
\* the sorted vector without the NaNs
median(prices) ==
    IF prices = <<>> THEN Err("EmptyIterator")
    ELSE IF Len(prices) % 2 = 0
         THEN IF Len(prices) \div 2 + 1 > Len(WithoutNaN(prices))
              THEN Panic("range end index out of range for slice")
              ELSE mean(SubSeq(SortByCmp(WithoutNaN(prices)),
                               Len(prices) \div 2, Len(prices) \div 2 + 1))
    ELSE IF Len(prices) \div 2 >= Len(WithoutNaN(prices))
         THEN Panic("index out of bounds")
         ELSE Ok(SortByCmp(WithoutNaN(prices))[Len(prices) \div 2 + 1])

\* f64::partial_cmp
F64PartialCmp(a, b) ==
    IF IsNaN(a) \/ IsNaN(b) THEN None
    ELSE IF RLt(a, b) THEN Some("Less")
    ELSE IF RGt(a, b) THEN Some("Greater")
    ELSE Some("Equal")

\* f64::eq
F64Eq(a, b) == ~IsNaN(a) /\ ~IsNaN(b) /\ a = b

\* PartialOrd<f64> for Statics
StaticsPartialCmp(s, a) ==
    CASE s = "Greater" -> Some("Greater")
      [] s = "Equal" -> Some("Equal")
      [] s = "Less" -> Some("Less")
      [] s = "True" -> Some("Equal")
      [] s = "False" -> Some("Equal")

\* the `equals` vector of partial_cmp: the orderings of the pairs that have one
Orderings(cmps) ==
    LET have == SelectSeq(cmps, LAMBDA o : o.some)
    IN  [i \in 1..Len(have) |-> have[i].v]

\* the result partial_cmp draws from `equals`
Agreed(equals) ==
    IF equals = <<>> THEN None
    ELSE IF \A i \in 1..Len(equals) : equals[i] = equals[1] THEN Some(equals[1])
    ELSE None

\* the (Array, Statics) arm of partial_cmp
ArrayStaticsCmp(a, b) ==
    IF Len(a) # Len(b) THEN None
    ELSE Agreed(Orderings([i \in 1..Len(a) |-> StaticsPartialCmp(b[i], a[i])]))

\* OutputType::partial_cmp
partial_cmp(x, y) ==
    CASE x.tag = "Single" /\ y.tag = "Single" -> F64PartialCmp(x.v, y.v)
      [] x.tag = "Array" /\ y.tag = "Array" ->
           IF Len(x.arr) # Len(y.arr) THEN None
           ELSE Agreed(Orderings([i \in 1..Len(x.arr) |-> F64PartialCmp(x.arr[i], y.arr[i])]))
      [] x.tag = "Single" /\ y.tag = "Static" -> StaticsPartialCmp(y.s, x.v)
      [] x.tag = "Static" /\ y.tag = "Single" -> StaticsPartialCmp(x.s, y.v)
      [] x.tag = "Array" /\ y.tag = "Statics" -> ArrayStaticsCmp(x.arr, y.vec)
      [] x.tag = "Statics" /\ y.tag = "Array" -> ArrayStaticsCmp(y.arr, x.vec)
      [] OTHER -> None

gt(x, y) == partial_cmp(x, y) = Some("Greater")
lt(x, y) == partial_cmp(x, y) = Some("Less")
ge(x, y) == partial_cmp(x, y) \in {Some("Greater"), Some("Equal")}
le(x, y) == partial_cmp(x, y) \in {Some("Less"), Some("Equal")}

\* OutputType: derive(PartialEq)
RECURSIVE eq(_, _)
eq(x, y) ==
    /\ x.tag = y.tag
    /\ CASE x.tag = "Single" -> F64Eq(x.v, y.v)
         [] x.tag = "Array" ->
              /\ Len(x.arr) = Len(y.arr)
              /\ \A i \in 1..Len(x.arr) : F64Eq(x.arr[i], y.arr[i])
         [] x.tag = "Custom" ->
              /\ Len(x.vec) = Len(y.vec)
              /\ \A i \in 1..Len(x.vec) : eq(x.vec[i], y.vec[i])
         [] x.tag = "Static" -> x.s = y.s
         [] x.tag = "Statics" -> x.vec = y.vec
         [] OTHER -> TRUE

\* OutputType::resolve.  ResolveCustom is the loop of the Custom arm: `out`
\* holds the values pushed so far.
RECURSIVE resolve(_, _)
RECURSIVE ResolveCustom(_, _, _, _)
ResolveCustom(vec, i, out, data) ==
    IF i > Len(vec) THEN Ok(Array(out))
    ELSE IF ~resolve(vec[i], data).ok THEN resolve(vec[i], data)
    ELSE IF resolve(vec[i], data).v.tag = "Single"
         THEN ResolveCustom(vec, i + 1, Append(out, resolve(vec[i], data).v.v), data)
    ELSE Err("IncorrectOutputType")
resolve(value, data) ==
    CASE value.tag = "Open" -> Ok(Single(open(data)))
      [] value.tag = "Close" -> Ok(Single(close(data)))
      [] value.tag = "High" -> Ok(Single(high(data)))
      [] value.tag = "Low" -> Ok(Single(low(data)))
      [] value.tag = "Volume" -> Ok(Single(volume(data)))
      [] value.tag = "Custom" -> ResolveCustom(value.vec, 1, <<>>, data)
      [] OTHER -> Ok(value)

\* OutputType::output_shape.  ShapesOf is the collect() of the Custom arm: the
\* shapes of the elements, or the first error among them.
RECURSIVE output_shape(_)
RECURSIVE ShapesOf(_, _, _)
ShapesOf(vec, i, shapes) ==
    IF i > Len(vec) THEN Ok(shapes)
    ELSE IF output_shape(vec[i]).ok
         THEN ShapesOf(vec, i + 1, Append(shapes, output_shape(vec[i]).v))
    ELSE output_shape(vec[i])
output_shape(value) ==
    CASE value.tag = "Array" -> OutputShapeValidate(Shape(Len(value.arr)))
      [] value.tag = "Statics" -> OutputShapeValidate(Shape(Len(value.vec)))
      [] value.tag = "Custom" ->
           IF ShapesOf(value.vec, 1, <<>>).ok
           THEN OutputShapeValidate(Tensor(ShapesOf(value.vec, 1, <<>>).v))
           ELSE ShapesOf(value.vec, 1, <<>>)
      [] OTHER -> Ok(Shape(1))

(***************************************************************************)
(* types::Queue                                                            *)
(***************************************************************************)
QueueNew(period) == [queue |-> <<>>, period |-> period]

\* a push that hands back the value it was given when the queue is full
QueuePush_ReturnsNewest(q, value) ==
    IF Len(q.queue) + 1 > q.period
    THEN [q |-> q, removed |-> Some(value)]
    ELSE [q |-> [q EXCEPT !.queue = Append(q.queue, value)], removed |-> None]

\* Queue::push: returns the queue after the push and the evicted element
QueuePush(q, value) ==
    LET pushed == Append(q.queue, value)
    IN  IF Len(pushed) > q.period
        THEN [q |-> [q EXCEPT !.queue = Tail(pushed)], removed |-> Some(pushed[1])]
        ELSE [q |-> [q EXCEPT !.queue = pushed], removed |-> None]

\* Reset for Queue
QueueReset(q) == [q EXCEPT !.queue = <<>>]

\* Vec::push reached through DerefMut for Queue
QueueDerefPush(q, value) == [q EXCEPT !.queue = Append(q.queue, value)]

(***************************************************************************)
(* Indicators.  Every XNext returns the advanced instance and its output.  *)
(***************************************************************************)
\* NoneIndicator
NoneNew == [type |-> "None"]
NoneNext(i, data) == [ind |-> i, out |-> close(data)]
NoneReset(i) == i
NoneDeserialize(ser) == [type |-> "None"]

\* OnBalanceVolume
ObvNew == [type |-> "Obv", obv |-> F(0), prev_close |-> None]
ObvNext(i, candle) ==
    LET obv == IF IsSome(i.prev_close)
               THEN IF RGt(close(candle), i.prev_close.v) THEN RAdd(i.obv, volume(candle))
                    ELSE IF RLt(close(candle), i.prev_close.v) THEN RSub(i.obv, volume(candle))
                    ELSE i.obv
               ELSE volume(candle)
    IN  [ind |-> [i EXCEPT !.obv = obv, !.prev_close = Some(close(candle))], out |-> obv]
ObvReset(i) == [i EXCEPT !.obv = F(0), !.prev_close = None]
ObvDeserialize(ser) == [type |-> "Obv", obv |-> F(0), prev_close |-> None]

\* ExponentialMovingAverage
EmaNew(period) ==
    [type |-> "Ema", period |-> period, k |-> Rat(2, period + 1), current |-> F(0), is_new |-> TRUE]
EmaNextF(i, input) ==
    LET current == IF i.is_new THEN input
                   ELSE RAdd(RMul(i.k, input), RMul(RSub(F(1), i.k), i.current))
    IN  [ind |-> [i EXCEPT !.is_new = FALSE, !.current = current], out |-> current]
EmaNext(i, data) == EmaNextF(i, close(data))
EmaReset(i) == [i EXCEPT !.current = F(0), !.is_new = TRUE]
EmaDeserialize(ser) ==
    [type |-> "Ema", period |-> ser.period, k |-> ser.k, current |-> F(0), is_new |-> TRUE]

\* SmoothedMovingAverage
SmmaNew(period) ==
    [type |-> "Smma", period |-> period,
     queue |-> QueuePush(QueueNew(period), F(0)).q, smma |-> None]
\* a next() that takes the seed average as soon as the window is full, over
\* the dummy zero and the first period - 1 inputs
SmmaNextF_SeedsWithZero(i, input) ==
    IF IsNone(i.smma)
    THEN LET p == QueuePush(i.queue, input)
         IN  IF Len(p.q.queue) = i.period
             THEN LET avg == RDiv(RSum(p.q.queue), F(i.period))
                  IN  [ind |-> [i EXCEPT !.queue = p.q, !.smma = Some(avg)], out |-> avg]
             ELSE [ind |-> [i EXCEPT !.queue = p.q], out |-> input]
    ELSE LET smma == RDiv(RAdd(RMul(i.smma.v, F(i.period - 1)), input), F(i.period))
         IN  [ind |-> [i EXCEPT !.smma = Some(smma)], out |-> smma]

\* Next<f64> for SmoothedMovingAverage
SmmaNextF(i, input) ==
    IF IsNone(i.smma)
    THEN LET p == QueuePush(i.queue, input)
         IN  IF IsSome(p.removed)
             THEN LET avg == RDiv(RSum(p.q.queue), F(i.period))
                  IN  [ind |-> [i EXCEPT !.queue = p.q, !.smma = Some(avg)], out |-> avg]
             ELSE [ind |-> [i EXCEPT !.queue = p.q], out |-> input]
    ELSE LET smma == RDiv(RAdd(RMul(i.smma.v, F(i.period - 1)), input), F(i.period))
         IN  [ind |-> [i EXCEPT !.smma = Some(smma)], out |-> smma]
SmmaNext(i, data) == SmmaNextF(i, close(data))
SmmaReset(i) ==
    [i EXCEPT !.queue = QueuePush(QueueNew(i.period), F(0)).q, !.smma = None]
SmmaDeserialize(ser) ==
    [type |-> "Smma", period |-> ser.period, queue |-> QueueNew(ser.period), smma |-> None]

\* SimpleMovingAverage (sma.rs): mean of the last `period` inputs, of the
\* inputs seen so far while the window is filling
SmaNew(period) == [type |-> "Sma", period |-> period, window |-> <<>>]
SmaNextF(i, input) ==
    LET pushed == Append(i.window, input)
        w == IF Len(pushed) > i.period THEN Tail(pushed) ELSE pushed
        avg == RDiv(RSum(w), F(Len(w)))
    IN  [ind |-> [i EXCEPT !.window = w], out |-> avg]

\* StochasticOscillator
StochNew(period, smoothing_period) ==
    [type |-> "Stoch", period |-> period, smoothing_period |-> smoothing_period,
     values |-> <<>>, d |-> SmaNew(smoothing_period)]
StochNext(i, input) ==
    LET pushed == Append(i.values, <<high(input), low(input), close(input)>>)
        values == IF Len(pushed) > i.period THEN Tail(pushed) ELSE pushed
        highest_high == RMaxOf([j \in 1..Len(values) |-> values[j][1]])
        lowest_low == RMinOf([j \in 1..Len(values) |-> values[j][2]])
        k == IF RSub(highest_high, lowest_low) = F(0) THEN F(0)
             ELSE RDiv(RSub(close(input), lowest_low), RSub(highest_high, lowest_low))
        d == SmaNextF(i.d, k)
    IN  [ind |-> [i EXCEPT !.values = values, !.d = d.ind],
         out |-> <<RMul(k, F(100)), RMul(d.out, F(100))>>]
StochReset(i) == [i EXCEPT !.values = <<>>]
StochDeserialize(ser) ==
    [type |-> "Stoch", period |-> ser.period, smoothing_period |-> ser.smoothing_period,
     values |-> <<>>, d |-> SmaNew(ser.smoothing_period)]

(***************************************************************************)
(* The unified Indicator enum                                              *)
(***************************************************************************)
\* Next<&T> for Indicator
IndicatorNext(i, input) ==
    CASE i.type = "None" -> LET r == NoneNext(i, input) IN [ind |-> r.ind, out |-> Single(r.out)]
      [] i.type = "Obv" -> LET r == ObvNext(i, input) IN [ind |-> r.ind, out |-> Single(r.out)]
      [] i.type = "Ema" -> LET r == EmaNext(i, input) IN [ind |-> r.ind, out |-> Single(r.out)]
      [] i.type = "Smma" -> LET r == SmmaNext(i, input) IN [ind |-> r.ind, out |-> Single(r.out)]
      [] i.type = "Stoch" -> LET r == StochNext(i, input) IN [ind |-> r.ind, out |-> Array(r.out)]

\* Next<f64> for Indicator: the instance after the call and the returned value
IndicatorNextF(i, input) ==
    CASE i.type = "None" -> [ind |-> i, res |-> Ok(Single(input))]
      [] i.type = "Ema" ->
           [ind |-> EmaNextF(i, input).ind, res |-> Ok(Single(EmaNextF(i, input).out))]
      [] i.type = "Smma" ->
           [ind |-> SmmaNextF(i, input).ind, res |-> Ok(Single(SmmaNextF(i, input).out))]
      [] i.type = "Stoch" -> [ind |-> i, res |-> Err("Unexpected")]
      [] i.type = "Obv" -> [ind |-> i, res |-> Err("Unexpected")]

IndicatorReset(i) ==
    CASE i.type = "None" -> NoneReset(i)
      [] i.type = "Obv" -> ObvReset(i)
      [] i.type = "Ema" -> EmaReset(i)
      [] i.type = "Smma" -> SmmaReset(i)
      [] i.type = "Stoch" -> StochReset(i)

\* Period for Alligator: the max of (period + shift) over the three lines
\* Alligator.  ShiftLine is the match on `buffer.push(val)` of one line: the
\* evicted value, or the first element of the buffer while it is filling.
ShiftLine_Newest(buffer, val) ==
    [buffer |-> QueuePush(buffer, val).q,
     shifted |-> IF IsSome(QueuePush(buffer, val).removed)
                 THEN QueuePush(buffer, val).removed.v ELSE val]

ShiftLine(buffer, val) ==
    [buffer |-> QueuePush(buffer, val).q,
     shifted |-> IF IsSome(QueuePush(buffer, val).removed) THEN QueuePush(buffer, val).removed.v
                 ELSE IF QueuePush(buffer, val).q.queue # <<>>
                      THEN QueuePush(buffer, val).q.queue[1] ELSE F(0)]

\* Next<f64> for Alligator
AlligatorNextF(i, input) ==
    LET jaw == SmmaNextF(i.jaw, input)
        teeth == SmmaNextF(i.teeth, input)
        lips == SmmaNextF(i.lips, input)
        jaw_shifted == ShiftLine(i.jaw_buffer, jaw.out)
        teeth_shifted == ShiftLine(i.teeth_buffer, teeth.out)
        lips_shifted == ShiftLine(i.lips_buffer, lips.out)
    IN  [ind |-> [i EXCEPT !.jaw = jaw.ind, !.teeth = teeth.ind, !.lips = lips.ind,
                           !.jaw_buffer = jaw_shifted.buffer,
                           !.teeth_buffer = teeth_shifted.buffer,
                           !.lips_buffer = lips_shifted.buffer],
         out |-> <<jaw_shifted.shifted, teeth_shifted.shifted, lips_shifted.shifted>>]

\* Reset for Alligator
AlligatorReset(i) ==
    [i EXCEPT !.jaw = SmmaReset(i.jaw), !.teeth = SmmaReset(i.teeth), !.lips = SmmaReset(i.lips),
              !.jaw_buffer = QueueNew(i.jaw_buffer.period),
              !.teeth_buffer = QueueNew(i.teeth_buffer.period),
              !.lips_buffer = QueueNew(i.lips_buffer.period)]

\* Period for Alligator
AlligatorPeriod(i) ==
    LET jaw == i.jaw.period + i.jaw_buffer.period
        teeth == i.teeth.period + i.teeth_buffer.period
        lips == i.lips.period + i.lips_buffer.period
        m == IF jaw < teeth THEN teeth ELSE jaw
    IN  IF m < lips THEN lips ELSE m

IndicatorPeriod(i) ==
    CASE i.type = "None" -> 0
      [] i.type = "Obv" -> 1
      [] i.type \in {"Atr", "Kc"} -> i.ema.period
      [] i.type = "Macd" -> i.slow_ema.period
      [] i.type = "WilliamsR" -> i.highs.period
      [] i.type = "Alligator" -> AlligatorPeriod(i)
      [] OTHER -> i.period

IndicatorOutputShape(i) == IF i.type = "Stoch" THEN Shape(2) ELSE Shape(1)

\* The persisted form: the variant tag and the fields that are not skipped
IndicatorSerialize(i) ==
    CASE i.type = "None" -> [type |-> "None"]
      [] i.type = "Obv" -> [type |-> "Obv"]
      [] i.type = "Ema" -> [type |-> "Ema", period |-> i.period, k |-> i.k]
      [] i.type = "Smma" -> [type |-> "Smma", period |-> i.period]
      [] i.type = "Stoch" ->
           [type |-> "Stoch", period |-> i.period, smoothing_period |-> i.smoothing_period]

IndicatorDeserialize(ser) ==
    CASE ser.type = "None" -> NoneDeserialize(ser)
      [] ser.type = "Obv" -> ObvDeserialize(ser)
      [] ser.type = "Ema" -> EmaDeserialize(ser)
      [] ser.type = "Smma" -> SmmaDeserialize(ser)
      [] ser.type = "Stoch" -> StochDeserialize(ser)

\* The instance the constructor builds from the parameters of i
IndicatorRebuild(i) ==
    CASE i.type = "None" -> NoneNew
      [] i.type = "Obv" -> ObvNew
      [] i.type = "Ema" -> EmaNew(i.period)
      [] i.type = "Smma" -> SmmaNew(i.period)
      [] i.type = "Stoch" -> StochNew(i.period, i.smoothing_period)

(***************************************************************************)
(* indicators::custom::CustomIndicator.  `inner` is an                     *)
(* Arc<Mutex<Box<dyn DynIndicator>>>: the instance holds the address of a  *)
(* heap cell, and the cell holds the wrapped indicator.  A plain indicator *)
(* is a value.                                                             *)
(***************************************************************************)
Plain(indicator) == [kind |-> "Plain", ind |-> indicator]

\* CustomIndicator::new, the Arc::new having allocated the cell at `addr`
CustomNew(addr, name) == [kind |-> "Custom", inner |-> addr, cached_name |-> name]

\* derive(Clone): every field is cloned; the clone of an Arc is the same address
InstanceClone(x) ==
    IF x.kind = "Custom"
    THEN [kind |-> "Custom", inner |-> x.inner, cached_name |-> x.cached_name]
    ELSE [kind |-> "Plain", ind |-> x.ind]

\* Next<&C>: CustomIndicator goes through with_inner_mut to the cell
InstanceNext(x, h, input) ==
    IF x.kind = "Custom"
    THEN [x |-> x, heap |-> [h EXCEPT ![x.inner] = IndicatorNext(h[x.inner], input).ind],
          out |-> IndicatorNext(h[x.inner], input).out]
    ELSE [x |-> [x EXCEPT !.ind = IndicatorNext(x.ind, input).ind], heap |-> h,
          out |-> IndicatorNext(x.ind, input).out]

\* Reset
InstanceReset(x, h) ==
    IF x.kind = "Custom"
    THEN [x |-> x, heap |-> [h EXCEPT ![x.inner] = IndicatorReset(h[x.inner])]]
    ELSE [x |-> [x EXCEPT !.ind = IndicatorReset(x.ind)], heap |-> h]

(***************************************************************************)
(* strategy::binary: the trade results of the platform, the Martingale     *)
(* amount modifier and the trader's balance bookkeeping.                   *)
(***************************************************************************)
\* platform::TradeResult
Win(payout) == [type |-> "Win", payout |-> payout]
Lose == [type |-> "Lose"]
Draw == [type |-> "Draw"]

\* f64::powf with a whole exponent
RECURSIVE RPow(_, _)
RPow(b, n) == IF n = 0 THEN F(1) ELSE RMul(b, RPow(b, n - 1))

\* Martingale::new
MartingaleNew(multiplier, max_doublings, reset_condition) ==
    IF RLt(multiplier, F(1)) \/ multiplier = F(1)
    THEN Err("InvalidParameter: Multiplier must be greater than 1.0")
    ELSE IF max_doublings = 0
    THEN Err("InvalidParameter: Max doublings must be greater than 0")
    ELSE Ok([multiplier |-> multiplier, max_doublings |-> max_doublings,
             current_doublings |-> 0, reset_condition |-> reset_condition])

calculate_multiplier_Unbounded(m, result) ==
    CASE result.type = "Win" -> [m |-> [m EXCEPT !.current_doublings = 0], out |-> F(1)]
      [] result.type = "Lose" ->
            [m |-> [m EXCEPT !.current_doublings = @ + 1],
             out |-> RPow(m.multiplier, m.current_doublings + 1)]
      [] result.type = "Draw" ->
            IF m.reset_condition = "WinOrDraw"
            THEN [m |-> [m EXCEPT !.current_doublings = 0], out |-> F(1)]
            ELSE [m |-> m, out |-> RPow(m.multiplier, m.current_doublings)]

\* Martingale::calculate_multiplier: the Martingale afterwards and the multiplier
calculate_multiplier(m, result) ==
    CASE result.type = "Win" -> [m |-> [m EXCEPT !.current_doublings = 0], out |-> F(1)]
      [] result.type = "Lose" ->
            IF m.current_doublings < m.max_doublings
            THEN [m |-> [m EXCEPT !.current_doublings = @ + 1],
                  out |-> RPow(m.multiplier, m.current_doublings + 1)]
            ELSE [m |-> m, out |-> F(1)]
      [] result.type = "Draw" ->
            IF m.reset_condition = "WinOrDraw"
            THEN [m |-> [m EXCEPT !.current_doublings = 0], out |-> F(1)]
            ELSE [m |-> m, out |-> RPow(m.multiplier, m.current_doublings)]

\* AmountModifier for Martingale
MartingaleModify(m, amount, last_result) ==
    IF IsSome(last_result)
    THEN [m |-> calculate_multiplier(m, last_result.v).m,
          out |-> RMul(amount, calculate_multiplier(m, last_result.v).out)]
    ELSE [m |-> m, out |-> amount]

\* Modifier::none, Modifier::martingale
ModifierNone == [type |-> "None"]
ModifierMartingale(multiplier, max_doublings, reset_condition) ==
    IF MartingaleNew(multiplier, max_doublings, reset_condition).ok
    THEN Ok([type |-> "Martingale",
             martingale |-> MartingaleNew(multiplier, max_doublings, reset_condition).v])
    ELSE MartingaleNew(multiplier, max_doublings, reset_condition)

\* AmountModifier for Modifier (TraderMut::modify takes the lock and forwards)
ModifierModify(mo, amount, last_result) ==
    IF mo.type = "None"
    THEN [mo |-> mo, out |-> amount]
    ELSE [mo |-> [mo EXCEPT !.martingale = MartingaleModify(mo.martingale, amount, last_result).m],
          out |-> MartingaleModify(mo.martingale, amount, last_result).out]

\* Trader::update_statistics: the tracked balance afterwards
update_statistics(bal, amount, result) ==
    CASE result.type = "Win" -> RAdd(bal, RSub(result.payout, amount))
      [] result.type = "Lose" -> RSub(bal, amount)
      [] result.type = "Draw" -> bal

(***************************************************************************)
(* Constructors, with their parameter checks, and deserialization from a   *)
(* persisted form whose numbers are whatever the document holds.           *)
(***************************************************************************)
Queue_new(period) ==
    IF period = 0 THEN Err("InvalidParameter") ELSE Ok(QueueNew(period))

\* an Ema::new without the check on the period
Ema_new_AcceptsZero(period) == Ok(EmaNew(period))

Ema_new(period) ==
    IF period = 0 THEN Err("InvalidParameter") ELSE Ok(EmaNew(period))

\* SimpleMovingAverage::new (sma.rs): fails if the period is zero
Sma_new(period) ==
    IF period = 0 THEN Err("InvalidParameter") ELSE Ok(SmaNew(period))

Smma_new(period) ==
    IF period < 2 THEN Err("InvalidParameter")
    ELSE IF ~Queue_new(period).ok THEN Queue_new(period)
    ELSE Ok(SmmaNew(period))

Stoch_new(period, smoothing_period) ==
    IF period = 0 THEN Err("InvalidParameter")
    ELSE IF ~Sma_new(smoothing_period).ok THEN Sma_new(smoothing_period)
    ELSE Ok(StochNew(period, smoothing_period))

Mae_new(period) ==
    IF period = 0 THEN Err("InvalidParameter")
    ELSE Ok([type |-> "Mae", period |-> period, values |-> <<>>, mean |-> F(0)])

Sd_new(period) ==
    IF period = 0 THEN Err("InvalidParameter")
    ELSE Ok([type |-> "Sd", period |-> period, index |-> 0, count |-> 0,
             m |-> F(0), m2 |-> F(0), deque |-> [j \in 1..period |-> F(0)]])

WilliamsR_new(period) ==
    IF ~Queue_new(period).ok THEN Queue_new(period)
    ELSE Ok([type |-> "WilliamsR", highs |-> Queue_new(period).v, lows |-> Queue_new(period).v])

\* AverageTrueRange::new; the TrueRange it holds takes no parameter
Atr_new(period) ==
    IF ~Ema_new(period).ok THEN Ema_new(period)
    ELSE Ok([type |-> "Atr", ema |-> Ema_new(period).v])

Kc_new(period, multiplier) ==
    IF period = 0 THEN Err("InvalidParameter")
    ELSE IF ~Atr_new(period).ok THEN Atr_new(period)
    ELSE IF ~Ema_new(period).ok THEN Ema_new(period)
    ELSE Ok([type |-> "Kc", multiplier |-> multiplier,
             atr |-> Atr_new(period).v, ema |-> Ema_new(period).v])

Macd_new(fast_period, slow_period, signal_period) ==
    IF ~Ema_new(fast_period).ok THEN Ema_new(fast_period)
    ELSE IF ~Ema_new(slow_period).ok THEN Ema_new(slow_period)
    ELSE IF ~Ema_new(signal_period).ok THEN Ema_new(signal_period)
    ELSE Ok([type |-> "Macd", fast_ema |-> Ema_new(fast_period).v,
             slow_ema |-> Ema_new(slow_period).v, signal_ema |-> Ema_new(signal_period).v])

\* Indicator::macd
IndicatorMacd(fast_period, slow_period, signal_period) ==
    Macd_new(fast_period, slow_period, signal_period)

Alligator_new(jaw_period, jaw_shift, teeth_period, teeth_shift, lips_period, lips_shift) ==
    IF jaw_period < 2 \/ teeth_period < 2 \/ lips_period < 2 THEN Err("InvalidParameter")
    ELSE IF jaw_shift < 1 \/ teeth_shift < 1 \/ lips_shift < 1 THEN Err("InvalidParameter")
    ELSE IF ~Smma_new(jaw_period).ok THEN Smma_new(jaw_period)
    ELSE IF ~Smma_new(teeth_period).ok THEN Smma_new(teeth_period)
    ELSE IF ~Smma_new(lips_period).ok THEN Smma_new(lips_period)
    ELSE IF ~Queue_new(jaw_shift).ok THEN Queue_new(jaw_shift)
    ELSE IF ~Queue_new(teeth_shift).ok THEN Queue_new(teeth_shift)
    ELSE IF ~Queue_new(lips_shift).ok THEN Queue_new(lips_shift)
    ELSE Ok([type |-> "Alligator",
             jaw |-> Smma_new(jaw_period).v, teeth |-> Smma_new(teeth_period).v,
             lips |-> Smma_new(lips_period).v, jaw_buffer |-> Queue_new(jaw_shift).v,
             teeth_buffer |-> Queue_new(teeth_shift).v, lips_buffer |-> Queue_new(lips_shift).v])

\* The constructor call that a request names
IndicatorConstruct(req) ==
    CASE req.type = "None" -> Ok(NoneNew)
      [] req.type = "Obv" -> Ok(ObvNew)
      [] req.type = "Ema" -> Ema_new(req.period)
      [] req.type = "Smma" -> Smma_new(req.period)
      [] req.type = "Stoch" -> Stoch_new(req.period, req.smoothing_period)
      [] req.type = "Mae" -> Mae_new(req.period)
      [] req.type = "Sd" -> Sd_new(req.period)
      [] req.type = "WilliamsR" -> WilliamsR_new(req.period)
      [] req.type = "Atr" -> Atr_new(req.period)
      [] req.type = "Kc" -> Kc_new(req.period, req.multiplier)
      [] req.type = "Macd" -> IndicatorMacd(req.fast_ema, req.slow_ema, req.signal_ema)
      [] req.type = "Alligator" ->
           Alligator_new(req.jaw_period, req.jaw_shift, req.teeth_period, req.teeth_shift,
                         req.lips_period, req.lips_shift)

\* .map_err(serde::de::Error::custom)
MapErrSerde(r) == IF r.ok THEN r ELSE Err("Serde")

\* Deserialize for Indicator (tag = "type"): each variant's own Deserialize,
\* derived for None, Obv, Ema and Mae, hand-written for the others
IndicatorFromJson(ser) ==
    CASE ser.type \in {"None", "Obv", "Ema"} -> Ok(IndicatorDeserialize(ser))
      [] ser.type = "Mae" ->
           Ok([type |-> "Mae", period |-> ser.period, values |-> <<>>, mean |-> F(0)])
      [] ser.type = "Smma" ->
           IF Queue_new(ser.period).ok THEN Ok(SmmaDeserialize(ser)) ELSE Err("Serde")
      [] ser.type = "Stoch" ->
           IF Sma_new(ser.smoothing_period).ok THEN Ok(StochDeserialize(ser)) ELSE Err("Serde")
      [] ser.type = "Kc" ->
           IF ~Atr_new(ser.period).ok \/ ~Ema_new(ser.period).ok THEN Err("Serde")
           ELSE Ok([type |-> "Kc", multiplier |-> ser.multiplier,
                    atr |-> Atr_new(ser.period).v, ema |-> Ema_new(ser.period).v])
      [] OTHER -> MapErrSerde(IndicatorConstruct(ser))

(***************************************************************************)
(* strategy::wrapper::IndicatorState.  `updates` counts the update() calls *)
(* since construction, reset or deserialization (history variable).        *)
(***************************************************************************)
IndicatorStateNew(indicator) ==
    [indicator |-> indicator, previous_output |-> None, updates |-> 0]

IndicatorStateUpdate(w, input) ==
    LET r == IndicatorNext(w.indicator, input)
    IN  [indicator |-> r.ind, previous_output |-> Some(r.out), updates |-> w.updates + 1]

IndicatorStatePrev(w) ==
    IF IsSome(w.previous_output) THEN Ok(w.previous_output.v) ELSE Err("NotInitialized")

\* reset that forgets to clear the cached output
IndicatorStateReset_KeepsOutput(w) ==
    [indicator |-> IndicatorReset(w.indicator), previous_output |-> w.previous_output, updates |-> 0]

IndicatorStateReset(w) ==
    [indicator |-> IndicatorReset(w.indicator), previous_output |-> None, updates |-> 0]

IndicatorStateSerialize(w) == IndicatorSerialize(w.indicator)

IndicatorStateDeserialize(ser) ==
    [indicator |-> IndicatorDeserialize(ser), previous_output |-> None, updates |-> 0]

(***************************************************************************)
(* strategy::condition::Operator                                           *)
(***************************************************************************)
GreaterThan == [op |-> "GreaterThan"]
LessThan == [op |-> "LessThan"]
Equals == [op |-> "Equals"]
GreaterThanOrEqual == [op |-> "GreaterThanOrEqual"]
LessThanOrEqual == [op |-> "LessThanOrEqual"]
CrossOver(prev_value) == [op |-> "CrossOver", prev_value |-> prev_value]
CrossUnder(prev_value) == [op |-> "CrossUnder", prev_value |-> prev_value]

IsCross(operator) == operator.op \in {"CrossOver", "CrossUnder"}

\* evaluate whose crossing tests are strict on the previous value
OperatorEvaluate_StrictPrev(operator, lhs, rhs) ==
    CASE operator.op = "GreaterThan" -> [operator |-> operator, res |-> Ok(gt(lhs, rhs))]
      [] operator.op = "LessThan" -> [operator |-> operator, res |-> Ok(lt(lhs, rhs))]
      [] operator.op = "Equals" -> [operator |-> operator, res |-> Ok(eq(lhs, rhs))]
      [] operator.op = "GreaterThanOrEqual" -> [operator |-> operator, res |-> Ok(ge(lhs, rhs))]
      [] operator.op = "LessThanOrEqual" -> [operator |-> operator, res |-> Ok(le(lhs, rhs))]
      [] operator.op = "CrossUnder" ->
           LET result == IF IsSome(operator.prev_value)
                         THEN gt(operator.prev_value.v, rhs) /\ lt(lhs, rhs)
                         ELSE FALSE
           IN  [operator |-> [operator EXCEPT !.prev_value = Some(lhs)], res |-> Ok(result)]
      [] operator.op = "CrossOver" ->
           LET result == IF IsSome(operator.prev_value)
                         THEN lt(operator.prev_value.v, rhs) /\ gt(lhs, rhs)
                         ELSE FALSE
           IN  [operator |-> [operator EXCEPT !.prev_value = Some(lhs)], res |-> Ok(result)]

\* Operator::evaluate: the operator after the call and the returned value
OperatorEvaluate(operator, lhs, rhs) ==
    CASE operator.op = "GreaterThan" -> [operator |-> operator, res |-> Ok(gt(lhs, rhs))]
      [] operator.op = "LessThan" -> [operator |-> operator, res |-> Ok(lt(lhs, rhs))]
      [] operator.op = "Equals" -> [operator |-> operator, res |-> Ok(eq(lhs, rhs))]
      [] operator.op = "GreaterThanOrEqual" -> [operator |-> operator, res |-> Ok(ge(lhs, rhs))]
      [] operator.op = "LessThanOrEqual" -> [operator |-> operator, res |-> Ok(le(lhs, rhs))]
      [] operator.op = "CrossUnder" ->
           LET result == IF IsSome(operator.prev_value)
                         THEN ge(operator.prev_value.v, rhs) /\ lt(lhs, rhs)
                         ELSE FALSE
           IN  [operator |-> [operator EXCEPT !.prev_value = Some(lhs)], res |-> Ok(result)]
      [] operator.op = "CrossOver" ->
           LET result == IF IsSome(operator.prev_value)
                         THEN le(operator.prev_value.v, rhs) /\ gt(lhs, rhs)
                         ELSE FALSE
           IN  [operator |-> [operator EXCEPT !.prev_value = Some(lhs)], res |-> Ok(result)]

\* reset that leaves the crossover slot as it is
OperatorReset_KeepsSlot(operator) == operator

\* the reset of the crossover slot done by Condition::reset
OperatorReset(operator) ==
    IF IsCross(operator) THEN [operator EXCEPT !.prev_value = None] ELSE operator

\* serde: the previous value is skipped and comes back as None
OperatorSerialize(operator) == operator.op
OperatorDeserialize(ser) ==
    IF ser \in {"CrossOver", "CrossUnder"} THEN [op |-> ser, prev_value |-> None] ELSE [op |-> ser]

(***************************************************************************)
(* strategy::condition::Condition                                          *)
(***************************************************************************)
CondValue(indicator, value, operator) ==
    [type |-> "Value", indicator |-> IndicatorStateNew(indicator),
     value |-> value, operator |-> operator]
CondIndicator(left, right, operator) ==
    [type |-> "Indicator", left |-> IndicatorStateNew(left),
     right |-> IndicatorStateNew(right), operator |-> operator]
CondAnd(conds) == [type |-> "And", conds |-> conds]
CondOr(conds) == [type |-> "Or", conds |-> conds]
CondNot(c) == [type |-> "Not", cond |-> c]

RECURSIVE ConditionValidate(_)
RECURSIVE ConditionValidateAll(_, _)
ConditionValidateAll(conds, i) ==
    IF i > Len(conds) THEN Ok("unit")
    ELSE LET r == ConditionValidate(conds[i])
         IN  IF r.ok THEN ConditionValidateAll(conds, i + 1) ELSE r
\* ConditionValidate that checks the period of the left indicator only
ConditionValidate_LeftPeriodOnly(c) ==
    CASE c.type = "Value" ->
           IF IndicatorPeriod(c.indicator.indicator) = 0 THEN Err("InvalidIndicatorPeriod")
           ELSE IF ~output_shape(c.value).ok THEN output_shape(c.value)
           ELSE IF IndicatorOutputShape(c.indicator.indicator) # output_shape(c.value).v
                THEN Err("IncompatibleShapes")
                ELSE Ok("unit")
      [] c.type = "Indicator" ->
           IF IndicatorPeriod(c.left.indicator) = 0
           THEN Err("InvalidIndicatorPeriod")
           ELSE IF IndicatorOutputShape(c.left.indicator) # IndicatorOutputShape(c.right.indicator)
                THEN Err("IncompatibleShapes")
                ELSE Ok("unit")
      [] c.type \in {"And", "Or"} -> ConditionValidateAll(c.conds, 1)
      [] c.type = "Not" -> ConditionValidate(c.cond)

ConditionValidate(c) ==
    CASE c.type = "Value" ->
           IF IndicatorPeriod(c.indicator.indicator) = 0 THEN Err("InvalidIndicatorPeriod")
           ELSE IF ~output_shape(c.value).ok THEN output_shape(c.value)
           ELSE IF IndicatorOutputShape(c.indicator.indicator) # output_shape(c.value).v
                THEN Err("IncompatibleShapes")
                ELSE Ok("unit")
      [] c.type = "Indicator" ->
           IF IndicatorPeriod(c.left.indicator) = 0 \/ IndicatorPeriod(c.right.indicator) = 0
           THEN Err("InvalidIndicatorPeriod")
           ELSE IF IndicatorOutputShape(c.left.indicator) # IndicatorOutputShape(c.right.indicator)
                THEN Err("IncompatibleShapes")
                ELSE Ok("unit")
      [] c.type \in {"And", "Or"} -> ConditionValidateAll(c.conds, 1)
      [] c.type = "Not" -> ConditionValidate(c.cond)

RECURSIVE ConditionUpdate(_, _)
ConditionUpdate(c, data) ==
    CASE c.type = "Value" -> [c EXCEPT !.indicator = IndicatorStateUpdate(c.indicator, data)]
      [] c.type = "Indicator" ->
           [c EXCEPT !.left = IndicatorStateUpdate(c.left, data),
                     !.right = IndicatorStateUpdate(c.right, data)]
      [] c.type \in {"And", "Or"} ->
           [c EXCEPT !.conds = [i \in 1..Len(c.conds) |-> ConditionUpdate(c.conds[i], data)]]
      [] c.type = "Not" -> [c EXCEPT !.cond = ConditionUpdate(c.cond, data)]

\* Condition::evaluate: the condition after the call and the returned value.
\* EvaluateConds is the loop of And (stop = FALSE) and Or (stop = TRUE): it
\* returns `stop` at the first child that evaluates to it.
RECURSIVE ConditionEvaluate(_, _)
RECURSIVE EvaluateConds(_, _, _, _)
EvaluateConds(conds, i, stop, data) ==
    IF i > Len(conds) THEN [conds |-> conds, res |-> Ok(~stop)]
    ELSE LET r == ConditionEvaluate(conds[i], data)
             after == [conds EXCEPT ![i] = r.cond]
         IN  IF ~r.res.ok THEN [conds |-> after, res |-> r.res]
             ELSE IF r.res.v = stop THEN [conds |-> after, res |-> Ok(stop)]
             ELSE EvaluateConds(after, i + 1, stop, data)
ConditionEvaluate(c, data) ==
    CASE c.type = "Value" ->
           LET lhs == IndicatorStatePrev(c.indicator)
               rhs == resolve(c.value, data)
           IN  IF ~lhs.ok THEN [cond |-> c, res |-> lhs]
               ELSE IF ~rhs.ok THEN [cond |-> c, res |-> rhs]
               ELSE LET r == OperatorEvaluate(c.operator, lhs.v, rhs.v)
                    IN  [cond |-> [c EXCEPT !.operator = r.operator], res |-> r.res]
      [] c.type = "Indicator" ->
           LET lhs == IndicatorStatePrev(c.left)
               rhs == IndicatorStatePrev(c.right)
           IN  IF ~lhs.ok THEN [cond |-> c, res |-> lhs]
               ELSE IF ~rhs.ok THEN [cond |-> c, res |-> rhs]
               ELSE LET r == OperatorEvaluate(c.operator, lhs.v, rhs.v)
                    IN  [cond |-> [c EXCEPT !.operator = r.operator], res |-> r.res]
      [] c.type = "And" ->
           LET r == EvaluateConds(c.conds, 1, FALSE, data)
           IN  [cond |-> [c EXCEPT !.conds = r.conds], res |-> r.res]
      [] c.type = "Or" ->
           LET r == EvaluateConds(c.conds, 1, TRUE, data)
           IN  [cond |-> [c EXCEPT !.conds = r.conds], res |-> r.res]
      [] c.type = "Not" ->
           LET r == ConditionEvaluate(c.cond, data)
           IN  [cond |-> [c EXCEPT !.cond = r.cond],
                res |-> IF r.res.ok THEN Ok(~r.res.v) ELSE r.res]

Max(a, b) == IF a < b THEN b ELSE a

\* max over the Some values of a sequence of Option<usize>
RECURSIVE OptionMax(_)
OptionMax(opts) ==
    IF opts = <<>> THEN None
    ELSE LET rest == OptionMax(Tail(opts))
         IN  IF IsNone(opts[1]) THEN rest
             ELSE IF IsNone(rest) THEN opts[1]
             ELSE Some(Max(opts[1].v, rest.v))

RECURSIVE ConditionMaxPeriod(_)
ConditionMaxPeriod(c) ==
    CASE c.type = "Value" -> Some(IndicatorPeriod(c.indicator.indicator))
      [] c.type = "Indicator" ->
           Some(Max(IndicatorPeriod(c.left.indicator), IndicatorPeriod(c.right.indicator)))
      [] c.type \in {"And", "Or"} ->
           OptionMax([i \in 1..Len(c.conds) |-> ConditionMaxPeriod(c.conds[i])])
      [] c.type = "Not" -> ConditionMaxPeriod(c.cond)

RECURSIVE ConditionReset(_)
ConditionReset(c) ==
    CASE c.type = "Value" ->
           [c EXCEPT !.indicator = IndicatorStateReset(c.indicator),
                     !.operator = OperatorReset(c.operator)]
      [] c.type = "Indicator" ->
           [c EXCEPT !.left = IndicatorStateReset(c.left),
                     !.right = IndicatorStateReset(c.right),
                     !.operator = OperatorReset(c.operator)]
      [] c.type \in {"And", "Or"} ->
           [c EXCEPT !.conds = [i \in 1..Len(c.conds) |-> ConditionReset(c.conds[i])]]
      [] c.type = "Not" -> [c EXCEPT !.cond = ConditionReset(c.cond)]

\* serde round trip of a condition (derived Serialize/Deserialize)
RECURSIVE ConditionSerialize(_)
ConditionSerialize(c) ==
    CASE c.type = "Value" ->
           [type |-> "Value", indicator |-> IndicatorStateSerialize(c.indicator),
            value |-> c.value, operator |-> OperatorSerialize(c.operator)]
      [] c.type = "Indicator" ->
           [type |-> "Indicator", left |-> IndicatorStateSerialize(c.left),
            right |-> IndicatorStateSerialize(c.right),
            operator |-> OperatorSerialize(c.operator)]
      [] c.type \in {"And", "Or"} ->
           [type |-> c.type, conds |-> [i \in 1..Len(c.conds) |-> ConditionSerialize(c.conds[i])]]
      [] c.type = "Not" -> [type |-> "Not", cond |-> ConditionSerialize(c.cond)]

RECURSIVE ConditionDeserialize(_)
ConditionDeserialize(ser) ==
    CASE ser.type = "Value" ->
           [type |-> "Value", indicator |-> IndicatorStateDeserialize(ser.indicator),
            value |-> ser.value, operator |-> OperatorDeserialize(ser.operator)]
      [] ser.type = "Indicator" ->
           [type |-> "Indicator", left |-> IndicatorStateDeserialize(ser.left),
            right |-> IndicatorStateDeserialize(ser.right),
            operator |-> OperatorDeserialize(ser.operator)]
      [] ser.type \in {"And", "Or"} ->
           [type |-> ser.type,
            conds |-> [i \in 1..Len(ser.conds) |-> ConditionDeserialize(ser.conds[i])]]
      [] ser.type = "Not" -> [type |-> "Not", cond |-> ConditionDeserialize(ser.cond)]

(***************************************************************************)
(* strategy::node::StrategyNode                                            *)
(***************************************************************************)
NodePreprocess(step) == [type |-> "Preprocess", step |-> step]
NodeAction(action) == [type |-> "Action", action |-> action]
NodeIf(condition, then_branch, else_branch) ==
    [type |-> "If", condition |-> condition, then_branch |-> then_branch,
     else_branch |-> else_branch]
NodeTimeout(cooldown, remaining, action) ==
    [type |-> "Timeout", cooldown |-> cooldown, remaining |-> remaining, action |-> action]
NodeSequence(mode, nodes) == [type |-> "Sequence", mode |-> mode, nodes |-> nodes]

First == [mode |-> "First"]
AnyMode == [mode |-> "Any"]  \* SequenceMode::Any (Any is taken by TLC)
All == [mode |-> "All"]
Majority == [mode |-> "Majority"]
Percentage(percentage) == [mode |-> "Percentage", percentage |-> percentage]

\* The iteration orders of the HashMap<Action, usize> that Majority and
\* Percentage build: the order is not fixed by the program, `order` lists the
\* keys in the order one run iterates them.
HashOrders ==
    { <<"StrongBuy", "Buy", "Sell", "StrongSell">>,
      <<"StrongSell", "Sell", "Buy", "StrongBuy">> }

Count(actions, a) == Cardinality({i \in 1..Len(actions) : actions[i] = a})

\* the entries of `counts` in iteration order
CountsKeys(actions, order) == SelectSeq(order, LAMBDA a : Count(actions, a) > 0)

\* Iterator::max_by_key over the entries: the last entry with the largest count
MaxByCount(actions, order) ==
    LET keys == CountsKeys(actions, order)
    IN  IF keys = <<>> THEN None
        ELSE LET best == CHOOSE i \in 1..Len(keys) :
                     /\ \A j \in 1..Len(keys) : Count(actions, keys[j]) <= Count(actions, keys[i])
                     /\ \A j \in (i + 1)..Len(keys) : Count(actions, keys[j]) < Count(actions, keys[i])
             IN  Some(keys[best])

\* filter_map(..).next(): the first entry whose share reaches the percentage
FirstReaching(actions, order, percentage) ==
    LET keys == CountsKeys(actions, order)
        total == Len(actions)
        hits == {i \in 1..Len(keys) : (Count(actions, keys[i]) * 100) \div total >= percentage}
    IN  IF hits = {} THEN None
        ELSE Some(keys[CHOOSE i \in hits : \A j \in hits : i <= j])

\* the aggregation of the collected non-Hold actions per mode
Aggregate(mode, actions, order) ==
    CASE mode.mode \in {"First", "Any"} -> IF actions = <<>> THEN "Hold" ELSE actions[1]
      [] mode.mode = "All" ->
           IF actions # <<>> /\ \A i \in 1..Len(actions) : actions[i] = actions[1]
           THEN actions[1] ELSE "Hold"
      [] mode.mode = "Majority" ->
           LET m == MaxByCount(actions, order) IN IF IsSome(m) THEN m.v ELSE "Hold"
      [] mode.mode = "Percentage" ->
           LET m == FirstReaching(actions, order, mode.percentage)
           IN  IF IsSome(m) THEN m.v ELSE "Hold"

\* StrategyNode::evaluate: the node after the call and the returned value.
\* EvaluateNodes is the loop of Sequence over its children.
RECURSIVE NodeEvaluate(_, _, _)
RECURSIVE EvaluateNodes(_, _, _, _, _, _)
\* EvaluateNodes that goes on to the later children after a non-Hold result
EvaluateNodes_NoBreak(nodes, i, mode, actions, data, order) ==
    IF i > Len(nodes) THEN [nodes |-> nodes, res |-> Ok(actions)]
    ELSE LET r == NodeEvaluate(nodes[i], data, order)
             after == [nodes EXCEPT ![i] = r.node]
         IN  IF ~r.res.ok THEN [nodes |-> after, res |-> r.res]
             ELSE IF r.res.v # "Hold"
                  THEN EvaluateNodes(after, i + 1, mode, Append(actions, r.res.v), data, order)
                  ELSE EvaluateNodes(after, i + 1, mode, actions, data, order)
EvaluateNodes(nodes, i, mode, actions, data, order) ==
    IF i > Len(nodes) THEN [nodes |-> nodes, res |-> Ok(actions)]
    ELSE LET r == NodeEvaluate(nodes[i], data, order)
             after == [nodes EXCEPT ![i] = r.node]
         IN  IF ~r.res.ok THEN [nodes |-> after, res |-> r.res]
             ELSE IF r.res.v # "Hold"
                  THEN IF mode.mode \in {"First", "Any"}
                       THEN [nodes |-> after, res |-> Ok(Append(actions, r.res.v))]
                       ELSE EvaluateNodes(after, i + 1, mode, Append(actions, r.res.v), data, order)
                  ELSE EvaluateNodes(after, i + 1, mode, actions, data, order)
\* NodeEvaluate whose Timeout starts the cooldown after an inner Hold as well
NodeEvaluate_HoldStartsCooldown(n, data, order) ==
    CASE n.type = "Preprocess" -> [node |-> n, res |-> Ok("Hold")]
      [] n.type = "If" ->
           LET c == ConditionEvaluate(n.condition, data)
               n1 == [n EXCEPT !.condition = c.cond]
           IN  IF ~c.res.ok THEN [node |-> n1, res |-> c.res]
               ELSE IF c.res.v
                    THEN LET t == NodeEvaluate(n.then_branch, data, order)
                         IN  [node |-> [n1 EXCEPT !.then_branch = t.node], res |-> t.res]
                    ELSE IF IsSome(n.else_branch)
                         THEN LET e == NodeEvaluate(n.else_branch.v, data, order)
                              IN  [node |-> [n1 EXCEPT !.else_branch = Some(e.node)],
                                   res |-> e.res]
                         ELSE [node |-> n1, res |-> Ok("Hold")]
      [] n.type = "Action" -> [node |-> n, res |-> Ok(n.action)]
      [] n.type = "Sequence" ->
           LET r == EvaluateNodes(n.nodes, 1, n.mode, <<>>, data, order)
               n1 == [n EXCEPT !.nodes = r.nodes]
           IN  IF ~r.res.ok THEN [node |-> n1, res |-> r.res]
               ELSE [node |-> n1, res |-> Ok(Aggregate(n.mode, r.res.v, order))]
      [] n.type = "Timeout" ->
           IF n.remaining > 0
           THEN [node |-> [n EXCEPT !.remaining = n.remaining - 1], res |-> Ok("Hold")]
           ELSE LET r == NodeEvaluate(n.action, data, order)
                    n1 == [n EXCEPT !.action = r.node]
                IN  IF ~r.res.ok THEN [node |-> n1, res |-> r.res]
                    ELSE [node |-> [n1 EXCEPT !.remaining = n.cooldown], res |-> r.res]

NodeEvaluate(n, data, order) ==
    CASE n.type = "Preprocess" -> [node |-> n, res |-> Ok("Hold")]
      [] n.type = "If" ->
           LET c == ConditionEvaluate(n.condition, data)
               n1 == [n EXCEPT !.condition = c.cond]
           IN  IF ~c.res.ok THEN [node |-> n1, res |-> c.res]
               ELSE IF c.res.v
                    THEN LET t == NodeEvaluate(n.then_branch, data, order)
                         IN  [node |-> [n1 EXCEPT !.then_branch = t.node], res |-> t.res]
                    ELSE IF IsSome(n.else_branch)
                         THEN LET e == NodeEvaluate(n.else_branch.v, data, order)
                              IN  [node |-> [n1 EXCEPT !.else_branch = Some(e.node)],
                                   res |-> e.res]
                         ELSE [node |-> n1, res |-> Ok("Hold")]
      [] n.type = "Action" -> [node |-> n, res |-> Ok(n.action)]
      [] n.type = "Sequence" ->
           LET r == EvaluateNodes(n.nodes, 1, n.mode, <<>>, data, order)
               n1 == [n EXCEPT !.nodes = r.nodes]
           IN  IF ~r.res.ok THEN [node |-> n1, res |-> r.res]
               ELSE [node |-> n1, res |-> Ok(Aggregate(n.mode, r.res.v, order))]
      [] n.type = "Timeout" ->
           IF n.remaining > 0
           THEN [node |-> [n EXCEPT !.remaining = n.remaining - 1], res |-> Ok("Hold")]
           ELSE LET r == NodeEvaluate(n.action, data, order)
                    n1 == [n EXCEPT !.action = r.node]
                IN  IF ~r.res.ok THEN [node |-> n1, res |-> r.res]
                    ELSE IF r.res.v # "Hold"
                         THEN [node |-> [n1 EXCEPT !.remaining = n.cooldown], res |-> r.res]
                         ELSE [node |-> n1, res |-> r.res]

\* StrategyNode::update (called by Strategy::evaluate): advances every
\* indicator reachable in the tree
RECURSIVE NodeUpdate(_, _)
NodeUpdate(n, data) ==
    CASE n.type = "If" ->
           [n EXCEPT !.condition = ConditionUpdate(n.condition, data),
                     !.then_branch = NodeUpdate(n.then_branch, data),
                     !.else_branch = IF IsSome(n.else_branch)
                                     THEN Some(NodeUpdate(n.else_branch.v, data)) ELSE None]
      [] n.type = "Sequence" ->
           [n EXCEPT !.nodes = [i \in 1..Len(n.nodes) |-> NodeUpdate(n.nodes[i], data)]]
      [] n.type = "Timeout" -> [n EXCEPT !.action = NodeUpdate(n.action, data)]
      [] OTHER -> n

\* a max_period that does not look into the else branch
RECURSIVE NodeMaxPeriod_SkipsElse(_)
NodeMaxPeriod_SkipsElse(n) ==
    CASE n.type = "If" ->
           OptionMax(<<ConditionMaxPeriod(n.condition), NodeMaxPeriod_SkipsElse(n.then_branch)>>)
      [] n.type = "Sequence" ->
           OptionMax([i \in 1..Len(n.nodes) |-> NodeMaxPeriod_SkipsElse(n.nodes[i])])
      [] n.type = "Timeout" -> NodeMaxPeriod_SkipsElse(n.action)
      [] OTHER -> None

\* StrategyNode::max_period
RECURSIVE NodeMaxPeriod(_)
NodeMaxPeriod(n) ==
    CASE n.type = "If" ->
           OptionMax(<<ConditionMaxPeriod(n.condition), NodeMaxPeriod(n.then_branch),
                       IF IsSome(n.else_branch) THEN NodeMaxPeriod(n.else_branch.v) ELSE None>>)
      [] n.type = "Sequence" ->
           OptionMax([i \in 1..Len(n.nodes) |-> NodeMaxPeriod(n.nodes[i])])
      [] n.type = "Timeout" -> NodeMaxPeriod(n.action)
      [] OTHER -> None

\* Period for StrategyNode
NodePeriod(n) == LET p == NodeMaxPeriod(n) IN IF IsSome(p) THEN p.v ELSE 0

RECURSIVE NodeValidate(_)
RECURSIVE NodeValidateAll(_, _)
NodeValidateAll(nodes, i) ==
    IF i > Len(nodes) THEN Ok("unit")
    ELSE LET r == NodeValidate(nodes[i])
         IN  IF r.ok THEN NodeValidateAll(nodes, i + 1) ELSE r
\* NodeValidate that does not descend into the else branch it found
NodeValidate_SkipsElseBranch(n) ==
    CASE n.type = "If" ->
           LET c == ConditionValidate(n.condition)
               t == NodeValidate(n.then_branch)
           IN  IF ~c.ok THEN c
               ELSE IF ~t.ok THEN t
               ELSE IF IsSome(n.else_branch) THEN Ok("unit")
               ELSE Err("MissingElseBranch")
      [] n.type = "Sequence" ->
           IF n.nodes = <<>> THEN Err("EmptySequence") ELSE NodeValidateAll(n.nodes, 1)
      [] n.type = "Timeout" -> NodeValidate(n.action)
      [] OTHER -> Ok("unit")

\* NodeValidate that takes a Timeout as valid without looking inside it
NodeValidate_SkipsTimeout(n) ==
    CASE n.type = "If" ->
           LET c == ConditionValidate(n.condition)
               t == NodeValidate(n.then_branch)
           IN  IF ~c.ok THEN c
               ELSE IF ~t.ok THEN t
               ELSE IF IsSome(n.else_branch) THEN NodeValidate(n.else_branch.v)
               ELSE Err("MissingElseBranch")
      [] n.type = "Sequence" ->
           IF n.nodes = <<>> THEN Err("EmptySequence") ELSE NodeValidateAll(n.nodes, 1)
      [] OTHER -> Ok("unit")

NodeValidate(n) ==
    CASE n.type = "If" ->
           LET c == ConditionValidate(n.condition)
               t == NodeValidate(n.then_branch)
           IN  IF ~c.ok THEN c
               ELSE IF ~t.ok THEN t
               ELSE IF IsSome(n.else_branch) THEN NodeValidate(n.else_branch.v)
               ELSE Err("MissingElseBranch")
      [] n.type = "Sequence" ->
           IF n.nodes = <<>> THEN Err("EmptySequence") ELSE NodeValidateAll(n.nodes, 1)
      [] n.type = "Timeout" -> NodeValidate(n.action)
      [] OTHER -> Ok("unit")

RECURSIVE NodeReset(_)
NodeReset(n) ==
    CASE n.type = "If" ->
           [n EXCEPT !.then_branch = NodeReset(n.then_branch),
                     !.else_branch = IF IsSome(n.else_branch)
                                     THEN Some(NodeReset(n.else_branch.v)) ELSE None,
                     !.condition = ConditionReset(n.condition)]
      [] n.type = "Sequence" ->
           [n EXCEPT !.nodes = [i \in 1..Len(n.nodes) |-> NodeReset(n.nodes[i])]]
      [] n.type = "Timeout" -> [n EXCEPT !.action = NodeReset(n.action), !.remaining = 0]
      [] OTHER -> n

\* serde round trip of a node (derived Serialize/Deserialize: every field of
\* every variant is written and read back, Timeout's `remaining` included)
RECURSIVE NodeSerialize(_)
NodeSerialize(n) ==
    CASE n.type = "If" ->
           [type |-> "If", condition |-> ConditionSerialize(n.condition),
            then_branch |-> NodeSerialize(n.then_branch),
            else_branch |-> IF IsSome(n.else_branch)
                            THEN Some(NodeSerialize(n.else_branch.v)) ELSE None]
      [] n.type = "Sequence" ->
           [type |-> "Sequence", mode |-> n.mode,
            nodes |-> [i \in 1..Len(n.nodes) |-> NodeSerialize(n.nodes[i])]]
      [] n.type = "Timeout" ->
           [type |-> "Timeout", cooldown |-> n.cooldown, remaining |-> n.remaining,
            action |-> NodeSerialize(n.action)]
      [] OTHER -> n

RECURSIVE NodeDeserialize(_)
NodeDeserialize(ser) ==
    CASE ser.type = "If" ->
           [type |-> "If", condition |-> ConditionDeserialize(ser.condition),
            then_branch |-> NodeDeserialize(ser.then_branch),
            else_branch |-> IF IsSome(ser.else_branch)
                            THEN Some(NodeDeserialize(ser.else_branch.v)) ELSE None]
      [] ser.type = "Sequence" ->
           [type |-> "Sequence", mode |-> ser.mode,
            nodes |-> [i \in 1..Len(ser.nodes) |-> NodeDeserialize(ser.nodes[i])]]
      [] ser.type = "Timeout" ->
           [type |-> "Timeout", cooldown |-> ser.cooldown, remaining |-> ser.remaining,
            action |-> NodeDeserialize(ser.action)]
      [] OTHER -> ser

(***************************************************************************)
(* strategy::strat::Strategy                                               *)
(***************************************************************************)
Progress(index) == [tag |-> "Progress", index |-> index]
Ready == [tag |-> "Ready"]

StrategyNew(nodes) == [nodes |-> nodes, state |-> Progress(0)]

\* a next() that starts the warm-up again once it is Ready
StrategyNext_ReadyRestarts(st) ==
    IF st.state.tag = "Progress"
    THEN IF st.state.index < NodePeriod(st.nodes)
         THEN [st EXCEPT !.state = Progress(st.state.index + 1)]
         ELSE [st EXCEPT !.state = Ready]
    ELSE [st EXCEPT !.state = Progress(0)]

\* Strategy::next
StrategyNext(st) ==
    IF st.state.tag = "Progress"
    THEN IF st.state.index < NodePeriod(st.nodes)
         THEN [st EXCEPT !.state = Progress(st.state.index + 1)]
         ELSE [st EXCEPT !.state = Ready]
    ELSE st

\* Strategy::evaluate: the strategy after the call and the returned value.
\* ReadyResult is `self.nodes.evaluate(data).map(Some)` with the tree the call
\* leaves behind; StrategyMatch is the match on the state that next() set.
ReadyResult(s1, r) ==
    [strategy |-> [s1 EXCEPT !.nodes = r.node],
     res |-> IF r.res.ok THEN Ok(Some(r.res.v)) ELSE r.res]

StrategyMatch(s1, data, order) ==
    IF s1.state.tag = "Progress"
    THEN [strategy |-> [s1 EXCEPT !.nodes = NodeUpdate(s1.nodes, data)], res |-> Ok(None)]
    ELSE ReadyResult(s1, NodeEvaluate(s1.nodes, data, order))

StrategyEvaluate(st, data, order) == StrategyMatch(StrategyNext(st), data, order)

\* Reset for Strategy
StrategyReset(st) == [nodes |-> NodeReset(st.nodes), state |-> Progress(0)]

\* Serialize for Strategy: only the tree is written
StrategySerialize(st) == NodeSerialize(st.nodes)

\* Deserialize for Strategy: StrategyNode::deserialize, then Self::new(nodes)
StrategyDeserialize(ser) == StrategyNew(NodeDeserialize(ser))

(***************************************************************************)
(* State                                                                   *)
(***************************************************************************)
VARIABLES
    ind,        \* an Indicator instance with some input history
    ref,        \* an instance built by the constructor from the same parameters
    origin,     \* how ind was last brought to its initial state: new, reset, deser
    iout,       \* last output of ind since then
    rout,       \* last output of ref since then
    isteps,     \* operations performed on ind
    fed,        \* the numbers given to ind by next(price) since construction, in order
    cond,       \* a Condition tree
    cres,       \* value returned by the last validate() or evaluate() on cond
    clast,      \* last operation performed on cond
    csteps,     \* operations performed on cond
    cevals,     \* evaluations of a leaf cond's operator since its initial state
    cprev,      \* indicator value seen by the evaluation before the latest one
    clhs,       \* indicator value seen by the latest evaluation
    crhs,       \* value it was compared with
    node,       \* a StrategyNode tree used directly
    nres,       \* value returned by the last validate() or evaluate() on node
    nlast,      \* last operation performed on node
    nsteps,     \* operations performed on node
    nfresh,     \* no update() on node since it was constructed
    nargs,      \* the last operation, if an evaluate(): the node before it, its arguments
    nquiet,     \* evaluate() calls since the last one that returned a non-Hold action
    strategy,   \* a Strategy
    result,     \* value returned by the last Strategy::evaluate
    slast,      \* last operation performed on strategy
    calls,      \* Strategy::evaluate calls since construction or reset
    oper,       \* an Operator
    olhs,       \* left operand of the last Operator::evaluate
    orhs,       \* right operand of the last Operator::evaluate
    ores,       \* value returned by the last Operator::evaluate
    req,        \* parameters, or persisted form, an Indicator was last asked from
    via,        \* how it was asked for: new (constructor) or json (deserialization)
    built,      \* what came back
    queue,      \* a Queue
    pushed,     \* the values given to it since construction or reset, in order
    popped,     \* value returned by the last push()
    qlast,      \* last operation performed on queue
    sarg,       \* the OutputShape given to validate(), or the OutputType asked for its shape
    sres,       \* what came back
    gator,      \* an Alligator
    gfed,       \* the numbers given to it since construction or reset, in order
    gout,       \* its last output
    cbar,       \* the bar of the last update-and-evaluate round on cond
    marg,       \* the slice given to median()
    mres,       \* what the call ended in
    heap,       \* the cells behind the CustomIndicators: address -> wrapped indicator
    orig,       \* an indicator instance, plain or CustomIndicator
    copy,       \* its clone, once taken
    twin,       \* an instance built like orig that is given orig's bars and never cloned
    oout,       \* last output of orig
    tout,       \* last output of twin
    ksteps,     \* operations performed on orig and copy
    modifier,   \* the trader's amount modifier (TraderMut.modifier)
    trade_amount,\* the configured base amount of a trade (Trader.trade_amount)
    balance,    \* the tracked balance (TraderMut.balance)
    last_result,\* result of the last settled trade, as the loop keeps it
    staked,     \* amount handed to platform.buy / platform.sell for the last trade
    before,     \* the tracked balance when the last trade was placed
    mult,       \* what calculate_multiplier returned last
    tsteps      \* candles received

indVars == <<ind, ref, origin, iout, rout, isteps, fed>>
condVars == <<cond, cres, clast, csteps, cevals, cprev, clhs, crhs>>
nodeVars == <<node, nres, nlast, nsteps, nfresh, nargs, nquiet>>
stratVars == <<strategy, result, slast, calls>>
cmpVars == <<oper, olhs, orhs, ores>>
newVars == <<req, via, built>>
queueVars == <<queue, pushed, popped, qlast>>
shapeVars == <<sarg, sres>>
gatorVars == <<gator, gfed, gout>>
barVars == <<cbar>>
medianVars == <<marg, mres>>
cloneVars == <<heap, orig, copy, twin, oout, tout, ksteps>>
traderVars == <<modifier, trade_amount, balance, last_result, staked, before, mult, tsteps>>
vars == <<indVars, condVars, nodeVars, stratVars, cmpVars, newVars, queueVars, shapeVars, gatorVars, barVars, medianVars, cloneVars, traderVars>>

(***************************************************************************)
(* Indicators: reset and persistence against a constructor-built instance  *)
(***************************************************************************)
Prices == { F(1), F(2), F(3) }

IndicatorSet ==
    { NoneNew, ObvNew, EmaNew(2), SmmaNew(2), SmmaNew(3), StochNew(2, 2), StochNew(1, 2) }

IndInit ==
    /\ ind \in IndicatorSet
    /\ ref = ind
    /\ origin = "new"
    /\ iout = None
    /\ rout = None
    /\ isteps = 0
    /\ fed = <<>>

IndIdle ==
    /\ ind = NoneNew
    /\ ref = NoneNew
    /\ origin = "new"
    /\ iout = None
    /\ rout = None
    /\ isteps = 0
    /\ fed = <<>>

\* indicator.next(&bar) on both instances
IndAdvance(data) ==
    /\ isteps < MaxSteps
    /\ LET r == IndicatorNext(ind, data)
           q == IndicatorNext(ref, data)
       IN  /\ ind' = r.ind
           /\ iout' = Some(r.out)
           /\ ref' = q.ind
           /\ rout' = Some(q.out)
    /\ isteps' = isteps + 1
    /\ UNCHANGED <<origin, fed>>

\* indicator.reset(); the reference is constructed anew
IndResetOp ==
    /\ isteps < MaxSteps
    /\ ind' = IndicatorReset(ind)
    /\ ref' = IndicatorRebuild(ind)
    /\ origin' = "reset"
    /\ iout' = None
    /\ rout' = None
    /\ isteps' = isteps + 1
    /\ UNCHANGED fed

\* serde round trip of the indicator; the reference is constructed anew
IndSerdeOp ==
    /\ isteps < MaxSteps
    /\ ind' = IndicatorDeserialize(IndicatorSerialize(ind))
    /\ ref' = IndicatorRebuild(ind)
    /\ origin' = "deser"
    /\ iout' = None
    /\ rout' = None
    /\ isteps' = isteps + 1
    /\ UNCHANGED fed

\* indicator.next(price) with a plain number
IndAdvancePrice(input) ==
    /\ isteps < MaxSteps
    /\ ind' = IndicatorNextF(ind, input).ind
    /\ iout' = Some(IndicatorNextF(ind, input).res)
    /\ origin' = "price"
    /\ isteps' = isteps + 1
    /\ fed' = Append(fed, input)
    /\ UNCHANGED <<ref, rout>>

PriceNext == \E input \in Prices : IndAdvancePrice(input)

IndNext ==
    \/ \E data \in Bars : IndAdvance(data)
    \/ IndResetOp
    \/ IndSerdeOp

(***************************************************************************)
(* Conditions: update, evaluate, reset and the serde round trip            *)
(***************************************************************************)
CondSet ==
    { CondValue(NoneNew, Single(F(2)), CrossOver(None)),
      CondValue(NoneNew, Single(F(2)), CrossUnder(None)),
      CondValue(ObvNew, Placeholder("Close"), CrossOver(None)),
      CondValue(SmmaNew(2), Single(F(2)), GreaterThan),
      CondIndicator(NoneNew, SmmaNew(2), CrossUnder(None)),
      CondIndicator(NoneNew, ObvNew, CrossOver(None)),
      CondAnd(<<CondValue(SmmaNew(2), Single(F(2)), GreaterThanOrEqual),
                CondValue(NoneNew, Single(F(2)), CrossOver(None))>>),
      CondNot(CondOr(<<CondValue(NoneNew, Single(F(2)), CrossUnder(None)),
                       CondValue(ObvNew, Single(F(1)), LessThan)>>)),
      CondIndicator(ObvNew, NoneNew, GreaterThan),
      CondIndicator(StochNew(1, 2), ObvNew, LessThan),
      CondValue(StochNew(1, 2), Single(F(2)), GreaterThan),
      CondValue(StochNew(1, 2), Array(<<F(50), F(50)>>), GreaterThanOrEqual),
      CondValue(ObvNew, Array(<<F(1), F(2)>>), LessThan),
      CondValue(ObvNew, Array(<<>>), LessThan),
      CondValue(ObvNew, Custom(<<Single(F(1)), Placeholder("Close")>>), Equals),
      CondValue(ObvNew, Custom(<<Array(<<F(1)>>)>>), GreaterThan),
      CondAnd(<<CondValue(SmmaNew(2), Single(F(2)), LessThanOrEqual),
                CondIndicator(EmaNew(2), ObvNew, CrossOver(None))>>),
      CondNot(CondAnd(<<CondValue(ObvNew, Single(F(1)), GreaterThan),
                        CondOr(<<CondValue(EmaNew(2), Placeholder("Close"), LessThan),
                                 CondValue(ObvNew, Array(<<F(1), F(2)>>), Equals)>>)>>)) }

IsLeaf(c) == c.type \in {"Value", "Indicator"}

CondInit ==
    /\ cond \in CondSet
    /\ cres = None
    /\ clast = "new"
    /\ csteps = 0
    /\ cevals = 0
    /\ cprev = None
    /\ clhs = None
    /\ crhs = None

CondIdle ==
    /\ cond = CondNot(CondAnd(<<>>))
    /\ cres = None
    /\ clast = "new"
    /\ csteps = 0
    /\ cevals = 0
    /\ cprev = None
    /\ clhs = None
    /\ crhs = None

\* cond.update(&data)
CondUpdate(data) ==
    /\ csteps < MaxSteps
    /\ cond' = ConditionUpdate(cond, data)
    /\ clast' = "update"
    /\ csteps' = csteps + 1
    /\ UNCHANGED <<cres, cevals, cprev, clhs, crhs>>

\* cond.evaluate(&data)
CondEvaluate(data) ==
    /\ csteps < MaxSteps
    /\ LET r == ConditionEvaluate(cond, data)
       IN  /\ cond' = r.cond
           /\ cres' = Some(r.res)
           /\ IF IsLeaf(cond) /\ r.res.ok
              THEN /\ cevals' = cevals + 1
                   /\ cprev' = clhs
                   /\ clhs' = Some(IndicatorStatePrev(
                                    IF cond.type = "Value" THEN cond.indicator ELSE cond.left).v)
                   /\ crhs' = Some(IF cond.type = "Value" THEN resolve(cond.value, data).v
                                   ELSE IndicatorStatePrev(cond.right).v)
              ELSE UNCHANGED <<cevals, cprev, clhs, crhs>>
    /\ clast' = "evaluate"
    /\ csteps' = csteps + 1

\* cond.validate()
CondValidate ==
    /\ csteps < MaxSteps
    /\ cres' = Some(ConditionValidate(cond))
    /\ clast' = "validate"
    /\ csteps' = csteps + 1
    /\ UNCHANGED <<cond, cevals, cprev, clhs, crhs>>

\* cond.reset()
CondReset ==
    /\ csteps < MaxSteps
    /\ cond' = ConditionReset(cond)
    /\ cres' = None
    /\ clast' = "reset"
    /\ csteps' = csteps + 1
    /\ cevals' = 0
    /\ cprev' = None
    /\ clhs' = None
    /\ crhs' = None

\* serde round trip of cond
CondSerde ==
    /\ csteps < MaxSteps
    /\ cond' = ConditionDeserialize(ConditionSerialize(cond))
    /\ cres' = None
    /\ clast' = "deserialize"
    /\ csteps' = csteps + 1
    /\ cevals' = 0
    /\ cprev' = None
    /\ clhs' = None
    /\ crhs' = None

CondNext ==
    \/ CondValidate
    \/ \E data \in Bars : CondUpdate(data)
    \/ \E data \in Bars : CondEvaluate(data)
    \/ CondReset
    \/ CondSerde

(***************************************************************************)
(* Strategy trees                                                          *)
(***************************************************************************)
ObvAbove == CondValue(ObvNew, Single(F(1)), GreaterThan)
SmmaCross == CondValue(SmmaNew(2), Placeholder("Close"), CrossOver(None))
EmaBelow == CondValue(EmaNew(3), Placeholder("Close"), LessThan)
CloseAbove == CondValue(NoneNew, Single(F(1)), GreaterThan)
ObvAboveCustom == CondValue(ObvNew, Custom(<<Array(<<F(1)>>)>>), GreaterThan)

TreeSet ==
    { NodeAction("Buy"),
      NodeIf(ObvAbove, NodeAction("Buy"), Some(NodeAction("Hold"))),
      NodeIf(SmmaCross, NodeAction("Sell"),
             Some(NodeIf(ObvAbove, NodeAction("Buy"), Some(NodeAction("Hold"))))),
      NodeSequence(First,
          << NodeIf(CondAnd(<<EmaBelow, ObvAbove>>), NodeAction("StrongBuy"),
                    Some(NodeAction("Hold"))),
             NodeTimeout(1, 0, NodeIf(ObvAbove, NodeAction("Sell"), Some(NodeAction("Hold")))) >>),
      NodeSequence(Majority,
          << NodePreprocess("Normalize"),
             NodeIf(ObvAbove, NodeAction("Buy"), Some(NodeAction("Sell"))),
             NodeAction("Sell"),
             NodeAction("Buy") >>),
      NodeSequence(Percentage(50),
          << NodeAction("StrongSell"),
             NodeIf(EmaBelow, NodeAction("Buy"), Some(NodeAction("StrongSell"))),
             NodeAction("Buy") >>),
      NodeIf(ObvAbove, NodeAction("Buy"), None),
      NodeSequence(AnyMode, <<>>),
      NodeTimeout(2, 0, NodeSequence(All,
          << NodeAction("Buy"), NodeIf(ObvAbove, NodeAction("Sell"), None) >>)),
      NodeIf(ObvAbove, NodeSequence(Majority, <<>>), Some(NodeAction("Hold"))),
      NodeIf(ObvAbove, NodeAction("Buy"), Some(NodeIf(SmmaCross, NodeAction("Sell"), None))),
      NodeIf(CloseAbove, NodeAction("Buy"), Some(NodeAction("Sell"))),
      NodeIf(ObvAbove, NodeSequence(First, <<>>), None),
      NodeIf(CloseAbove, NodeAction("Buy"), None),
      NodeIf(ObvAboveCustom, NodeAction("Buy"), Some(NodeAction("Hold"))),
      NodeSequence(Majority,
          << NodeAction("Buy"),
             NodeIf(ObvAbove, NodeAction("Buy"), Some(NodeAction("Hold"))),
             NodeAction("Sell") >>),
      NodeSequence(Percentage(50),
          << NodeAction("Hold"),
             NodeIf(EmaBelow, NodeAction("Sell"), Some(NodeAction("Hold"))),
             NodeIf(ObvAbove, NodeAction("Buy"), Some(NodeAction("Hold"))) >>),
      NodeSequence(Majority, << NodeAction("Sell"), NodeAction("Hold"), NodeAction("Buy") >>),
      NodeSequence(Percentage(50),
          << NodeAction("Hold"), NodeAction("Buy"), NodeAction("Hold") >>),
      NodeSequence(AnyMode,
          << NodeIf(ObvAbove, NodeAction("Buy"), Some(NodeAction("Hold"))),
             NodeTimeout(1, 0, NodeAction("Sell")) >>),
      NodeTimeout(1, 0, NodeIf(ObvAbove, NodeAction("Sell"), Some(NodeAction("Hold")))) }

(***************************************************************************)
(* A StrategyNode used directly: validate, update, evaluate, reset         *)
(***************************************************************************)
NodeInit ==
    /\ node \in TreeSet
    /\ nres = None
    /\ nlast = "new"
    /\ nsteps = 0
    /\ nfresh = TRUE
    /\ nargs = None
    /\ nquiet = None

NodeIdle ==
    /\ node = NodeAction("Hold")
    /\ nres = None
    /\ nlast = "new"
    /\ nsteps = 0
    /\ nfresh = TRUE
    /\ nargs = None
    /\ nquiet = None

\* node.validate()
NodeValidateOp ==
    /\ nsteps < MaxSteps
    /\ nres' = Some(NodeValidate(node))
    /\ nlast' = "validate"
    /\ nsteps' = nsteps + 1
    /\ nargs' = None
    /\ UNCHANGED <<node, nfresh, nquiet>>

\* node.update(&data)
NodeUpdateOp(data) ==
    /\ nsteps < MaxSteps
    /\ node' = NodeUpdate(node, data)
    /\ nlast' = "update"
    /\ nsteps' = nsteps + 1
    /\ nfresh' = FALSE
    /\ nargs' = None
    /\ UNCHANGED <<nres, nquiet>>

\* the count kept in nquiet after an evaluate() that returned res
Quiet(q, res) ==
    IF res.ok /\ res.v # "Hold" THEN Some(0)
    ELSE IF IsSome(q) THEN Some(q.v + 1)
    ELSE None

\* node.evaluate(&data)
NodeEvaluateOp(data, order) ==
    /\ nsteps < MaxSteps
    /\ node' = NodeEvaluate(node, data, order).node
    /\ nres' = Some(NodeEvaluate(node, data, order).res)
    /\ nlast' = "evaluate"
    /\ nsteps' = nsteps + 1
    /\ nargs' = Some([node |-> node, data |-> data, order |-> order, quiet |-> nquiet])
    /\ nquiet' = Quiet(nquiet, NodeEvaluate(node, data, order).res)
    /\ UNCHANGED nfresh

\* node.reset()
NodeResetOp ==
    /\ nsteps < MaxSteps
    /\ node' = NodeReset(node)
    /\ nres' = None
    /\ nlast' = "reset"
    /\ nsteps' = nsteps + 1
    /\ nargs' = None
    /\ nquiet' = None
    /\ UNCHANGED nfresh

NodeNext ==
    \/ NodeValidateOp
    \/ \E data \in Bars : NodeUpdateOp(data)
    \/ \E data \in Bars, order \in HashOrders : NodeEvaluateOp(data, order)
    \/ NodeResetOp

(***************************************************************************)
(* A Strategy driven bar by bar                                            *)
(***************************************************************************)
StratInit ==
    /\ \E nodes \in TreeSet : strategy = StrategyNew(nodes)
    /\ result = None
    /\ slast = "new"
    /\ calls = 0

StratIdle ==
    /\ strategy = StrategyNew(NodeAction("Hold"))
    /\ result = None
    /\ slast = "new"
    /\ calls = 0

\* strategy.evaluate(&data)
StratEvaluate(data, order) ==
    /\ calls < MaxCalls
    /\ LET r == StrategyEvaluate(strategy, data, order)
       IN  /\ strategy' = r.strategy
           /\ result' = Some(r.res)
    /\ slast' = "evaluate"
    /\ calls' = calls + 1

\* strategy.reset()
StratReset ==
    /\ calls > 0
    /\ strategy' = StrategyReset(strategy)
    /\ result' = None
    /\ slast' = "reset"
    /\ calls' = 0

StratNext ==
    \/ \E data \in Bars, order \in HashOrders : StratEvaluate(data, order)
    \/ StratReset

\* the strategy is written out and read back
StratSerde ==
    /\ strategy' = StrategyDeserialize(StrategySerialize(strategy))
    /\ result' = None
    /\ slast' = "deser"
    /\ calls' = 0

PersistNext ==
    \/ StratNext
    \/ StratSerde

(***************************************************************************)
(* Operator::evaluate on OutputType operands                               *)
(***************************************************************************)
ValueSet ==
    { Single(F(1)), Single(F(2)), Single(NaN),
      Array(<<F(2)>>), Array(<<F(2), F(2)>>), Array(<<F(1), F(3)>>), Array(<<F(3), F(1)>>),
      Array(<<F(3), NaN>>), Array(<<F(1), F(2), F(3)>>),
      Static("True"), Static("Greater"),
      Statics(<<"True", "True">>), Statics(<<"Less", "Greater">>) }

OperatorSet ==
    { GreaterThan, LessThan, Equals, GreaterThanOrEqual, LessThanOrEqual,
      CrossOver(None), CrossUnder(None) }

CmpInit ==
    /\ oper \in OperatorSet
    /\ olhs \in ValueSet
    /\ orhs \in ValueSet
    /\ ores = None

CmpIdle ==
    /\ oper = GreaterThan
    /\ olhs = Single(F(1))
    /\ orhs = Single(F(1))
    /\ ores = None

\* oper.evaluate(&l, &r)
CmpEvaluate(l, r) ==
    /\ oper' = OperatorEvaluate(oper, l, r).operator
    /\ ores' = Some(OperatorEvaluate(oper, l, r).res)
    /\ olhs' = l
    /\ orhs' = r

CmpNext == \E l \in ValueSet, r \in ValueSet : CmpEvaluate(l, r)

(***************************************************************************)
(* Indicators asked from parameters or from a persisted form               *)
(***************************************************************************)
Periods == 0..MaxPeriod

Requests ==
    { [type |-> "None"], [type |-> "Obv"] }
    \cup { [type |-> "Ema", period |-> p, k |-> Rat(2, p + 1)] : p \in Periods }
    \cup { [type |-> t, period |-> p] : t \in {"Smma", "Mae", "Sd", "WilliamsR", "Atr"},
                                        p \in Periods }
    \cup { [type |-> "Stoch", period |-> p, smoothing_period |-> q] : p \in Periods, q \in Periods }
    \cup { [type |-> "Kc", period |-> p, multiplier |-> F(2)] : p \in Periods }
    \cup { [type |-> "Macd", fast_ema |-> f, slow_ema |-> w, signal_ema |-> g] :
               f \in Periods, w \in Periods, g \in Periods }
    \cup { [type |-> "Alligator", jaw_period |-> a, jaw_shift |-> b, teeth_period |-> c,
            teeth_shift |-> d, lips_period |-> e, lips_shift |-> f] :
               a \in Periods, b \in Periods, c \in Periods,
               d \in Periods, e \in Periods, f \in Periods }

NewInit ==
    /\ req = [type |-> "None"]
    /\ via = "none"
    /\ built = None

NewIdle == NewInit

\* Indicator::ema(period), Alligator::new(..) and the like
IndNewOp(r) ==
    /\ via = "none"
    /\ req' = r
    /\ via' = "new"
    /\ built' = Some(IndicatorConstruct(r))

\* serde_json::from_str::<Indicator>(..)
IndFromJsonOp(r) ==
    /\ via = "none"
    /\ req' = r
    /\ via' = "json"
    /\ built' = Some(IndicatorFromJson(r))

NewNext ==
    \/ \E r \in Requests : IndNewOp(r)
    \/ \E r \in Requests : IndFromJsonOp(r)

(***************************************************************************)
(* A Queue used through its own methods, and through DerefMut as well      *)
(***************************************************************************)
Values == 1..3

QueueInit ==
    /\ \E capacity \in 1..MaxCap : queue = Queue_new(capacity).v
    /\ pushed = <<>>
    /\ popped = None
    /\ qlast = "new"

QueueIdle ==
    /\ queue = QueueNew(1)
    /\ pushed = <<>>
    /\ popped = None
    /\ qlast = "new"

\* queue.push(value)
QueuePushOp(value) ==
    /\ Len(pushed) < MaxPushes
    /\ queue' = QueuePush(queue, value).q
    /\ popped' = Some(QueuePush(queue, value).removed)
    /\ pushed' = Append(pushed, value)
    /\ qlast' = "push"

\* queue.reset()
QueueResetOp ==
    /\ pushed # <<>>
    /\ queue' = QueueReset(queue)
    /\ pushed' = <<>>
    /\ popped' = None
    /\ qlast' = "reset"

\* (*queue).push(value): the Vec's own push
QueueDerefPushOp(value) ==
    /\ Len(pushed) < MaxPushes
    /\ queue' = QueueDerefPush(queue, value)
    /\ popped' = None
    /\ pushed' = Append(pushed, value)
    /\ qlast' = "deref"

QueueNext ==
    \/ \E value \in Values : QueuePushOp(value)
    \/ QueueResetOp

DerefNext ==
    \/ \E value \in Values : QueuePushOp(value)
    \/ QueueResetOp
    \/ \E value \in Values : QueueDerefPushOp(value)

(***************************************************************************)
(* OutputShape::validate and OutputType::output_shape on given values      *)
(***************************************************************************)
Tuples(S, n) == UNION { [1..k -> S] : k \in 0..n }

BaseShapes == { Shape(0), Shape(1), Shape(2), Tensor(<<>>), Tensor(<<Shape(1), Shape(2)>>) }
ShapeSet == BaseShapes \cup { Tensor(t) : t \in Tuples(BaseShapes, MaxDim) }

Elements ==
    { Single(F(1)), Placeholder("Close"), Static("True"), Array(<<F(1), F(2)>>), Array(<<>>) }
ShapedValues ==
    { Array(a) : a \in Tuples({F(1)}, MaxDim) } \cup { Custom(v) : v \in Tuples(Elements, MaxDim) }

ShapeInit ==
    /\ sarg = [op |-> "none"]
    /\ sres = None

ShapeIdle == ShapeInit

\* shape.validate()
ShapeValidateOp(shape) ==
    /\ sarg.op = "none"
    /\ sarg' = [op |-> "validate", shape |-> shape]
    /\ sres' = Some(OutputShapeValidate(shape))

\* value.output_shape()
ShapeOfOp(value) ==
    /\ sarg.op = "none"
    /\ sarg' = [op |-> "output_shape", value |-> value]
    /\ sres' = Some(output_shape(value))

ShapeNext ==
    \/ \E shape \in ShapeSet : ShapeValidateOp(shape)
    \/ \E value \in ShapedValues : ShapeOfOp(value)

(***************************************************************************)
(* StrategyNode::max_period on trees of every form                         *)
(***************************************************************************)
TreePeriods == 1..(MaxPeriod + 1)
Above(p) == CondValue(EmaNew(p), Single(F(1)), GreaterThan)
Nested(p, q) == CondAnd(<<CondNot(Above(p)), CondOr(<<Above(q), CondAnd(<<>>)>>)>>)
Buy == NodeAction("Buy")

PeriodTrees ==
    { Buy, NodeSequence(All, <<>>), NodeSequence(All, <<Buy, Buy>>), NodeTimeout(1, 0, Buy),
      NodeIf(CondNot(CondAnd(<<>>)), Buy, Some(Buy)) }
    \cup { NodeIf(Above(p), Buy, None) : p \in TreePeriods }
    \cup { NodeIf(CondIndicator(EmaNew(p), EmaNew(q), LessThan), Buy, Some(Buy)) :
             p \in TreePeriods, q \in TreePeriods }
    \cup { NodeIf(Nested(p, q), Buy, Some(NodeIf(Above(r), Buy, None))) :
             p \in TreePeriods, q \in TreePeriods, r \in TreePeriods }
    \cup { NodeIf(CondOr(<<>>), NodeIf(Above(p), Buy, None), Some(NodeTimeout(1, 0, NodeIf(Above(q), Buy, None)))) :
             p \in TreePeriods, q \in TreePeriods }
    \cup { NodeSequence(First, <<Buy, NodeIf(Above(p), Buy, None),
                                 NodeTimeout(2, 1, NodeSequence(AnyMode, <<NodeIf(Nested(q, r), Buy, None)>>))>>) :
             p \in TreePeriods, q \in TreePeriods, r \in TreePeriods }

PeriodInit ==
    /\ node \in PeriodTrees
    /\ nres = None
    /\ nlast = "new"
    /\ nsteps = 0
    /\ nfresh = TRUE
    /\ nargs = None
    /\ nquiet = None

\* node.max_period()
NodeMaxPeriodOp ==
    /\ nlast = "new"
    /\ nres' = Some(NodeMaxPeriod(node))
    /\ nlast' = "max_period"
    /\ nsteps' = nsteps + 1
    /\ UNCHANGED <<node, nfresh, nargs, nquiet>>

(***************************************************************************)
(* An Alligator fed number by number                                       *)
(***************************************************************************)
\* jaw period, jaw shift, teeth period, teeth shift, lips period, lips shift
GatorConfigs ==
    { <<2, 1, 2, 1, 2, 1>>, <<2, 2, 2, 1, 3, 3>>, <<3, 3, 2, 2, 2, 1>>,
      <<3, 1, 3, 2, 2, 3>>, <<2, 4, 3, 3, 3, 2>>, <<3, 2, 2, 3, 2, 4>> }

GatorInit ==
    /\ \E c \in GatorConfigs : gator = Alligator_new(c[1], c[2], c[3], c[4], c[5], c[6]).v
    /\ gfed = <<>>
    /\ gout = None

GatorIdle ==
    /\ gator = Alligator_new(2, 1, 2, 1, 2, 1).v
    /\ gfed = <<>>
    /\ gout = None

\* alligator.next(price)
GatorAdvance(input) ==
    /\ Len(gfed) < MaxSteps
    /\ gator' = AlligatorNextF(gator, input).ind
    /\ gout' = Some(AlligatorNextF(gator, input).out)
    /\ gfed' = Append(gfed, input)

\* alligator.reset()
GatorReset ==
    /\ gfed # <<>>
    /\ gator' = AlligatorReset(gator)
    /\ gout' = None
    /\ gfed' = <<>>

GatorNext ==
    \/ \E input \in Prices : GatorAdvance(input)
    \/ GatorReset

(***************************************************************************)
(* A Condition driven bar by bar: update(&bar), then evaluate(&bar)        *)
(***************************************************************************)
CrossLeaf == CondValue(NoneNew, Single(F(2)), CrossOver(None))
Gate == CondValue(SmmaNew(2), Single(F(2)), GreaterThanOrEqual)

BarConds ==
    { CrossLeaf,
      CondIndicator(NoneNew, ObvNew, CrossUnder(None)),
      CondAnd(<<Gate, CrossLeaf>>),
      CondAnd(<<CrossLeaf, Gate>>),
      CondOr(<<Gate, CrossLeaf>>),
      CondNot(CondOr(<<CondValue(ObvNew, Single(F(1)), LessThan),
                       CondNot(CondIndicator(EmaNew(2), ObvNew, CrossUnder(None)))>>)) }

BarInit ==
    /\ cond \in BarConds
    /\ cres = None
    /\ clast = "new"
    /\ csteps = 0
    /\ cevals = 0
    /\ cprev = None
    /\ clhs = None
    /\ crhs = None
    /\ cbar = None

BarIdle == cbar = None

\* cond.update(&data)?; cond.evaluate(&data)
CondBar(data) ==
    /\ csteps < MaxSteps
    /\ cond' = ConditionEvaluate(ConditionUpdate(cond, data), data).cond
    /\ cres' = Some(ConditionEvaluate(ConditionUpdate(cond, data), data).res)
    /\ clast' = "bar"
    /\ csteps' = csteps + 1
    /\ cbar' = Some(data)
    /\ UNCHANGED <<cevals, cprev, clhs, crhs>>

BarNext == \E data \in Bars : CondBar(data)

(***************************************************************************)
(* median on given slices                                                  *)
(***************************************************************************)
Samples == { F(1), F(2), F(3), F(5), NaN }

MedianInit ==
    /\ marg = <<>>
    /\ mres = None

MedianIdle == MedianInit

\* median(&prices)
MedianOp(prices) ==
    /\ mres = None
    /\ marg' = prices
    /\ mres' = Some(median(prices))

MedianNext == \E prices \in Tuples(Samples, MaxDim) : MedianOp(prices)

(***************************************************************************)
(* An instance and its clone                                               *)
(***************************************************************************)
Wrapped == { EmaNew(2), SmmaNew(2), ObvNew }

CloneInit ==
    /\ \E base \in Wrapped :
          /\ heap = <<base, base>>
          /\ \/ orig = Plain(base) /\ twin = Plain(base)
             \/ orig = CustomNew(1, base.type) /\ twin = CustomNew(2, base.type)
    /\ copy = None
    /\ oout = None
    /\ tout = None
    /\ ksteps = 0

CloneIdle ==
    /\ heap = <<NoneNew, NoneNew>>
    /\ orig = Plain(NoneNew)
    /\ twin = Plain(NoneNew)
    /\ copy = None
    /\ oout = None
    /\ tout = None
    /\ ksteps = 0

\* let copy = orig.clone()
CloneOp ==
    /\ copy = None
    /\ copy' = Some(InstanceClone(orig))
    /\ UNCHANGED <<heap, orig, twin, oout, tout, ksteps>>

\* orig.next(&data), and the same bar to the twin
OrigNext(data) ==
    /\ ksteps < MaxSteps
    /\ orig' = InstanceNext(orig, heap, data).x
    /\ oout' = Some(InstanceNext(orig, heap, data).out)
    /\ twin' = InstanceNext(twin, InstanceNext(orig, heap, data).heap, data).x
    /\ tout' = Some(InstanceNext(twin, InstanceNext(orig, heap, data).heap, data).out)
    /\ heap' = InstanceNext(twin, InstanceNext(orig, heap, data).heap, data).heap
    /\ ksteps' = ksteps + 1
    /\ UNCHANGED copy

\* copy.next(&data)
CopyNext(data) ==
    /\ ksteps < MaxSteps
    /\ IsSome(copy)
    /\ copy' = Some(InstanceNext(copy.v, heap, data).x)
    /\ heap' = InstanceNext(copy.v, heap, data).heap
    /\ ksteps' = ksteps + 1
    /\ UNCHANGED <<orig, twin, oout, tout>>

\* copy.reset()
CopyReset ==
    /\ ksteps < MaxSteps
    /\ IsSome(copy)
    /\ copy' = Some(InstanceReset(copy.v, heap).x)
    /\ heap' = InstanceReset(copy.v, heap).heap
    /\ ksteps' = ksteps + 1
    /\ UNCHANGED <<orig, twin, oout, tout>>

CloneNext ==
    \/ CloneOp
    \/ \E data \in Bars : OrigNext(data)
    \/ \E data \in Bars : CopyNext(data)
    \/ CopyReset

(***************************************************************************)
(* The single-threaded trading loop: one candle at a time                  *)
(***************************************************************************)
Multipliers == { F(1), F(2), Rat(3, 2) }
ResetConditions == { "Win", "WinOrDraw" }
Modifiers ==
    { ModifierNone } \cup
    { ModifierMartingale(x, k, c).v :
        <<x, k, c>> \in { t \in Multipliers \X (0 .. MaxDoublings) \X ResetConditions :
                            ModifierMartingale(t[1], t[2], t[3]).ok } }
TradeSignals == { Some("Buy"), Some("StrongBuy"), Some("Sell"), Some("StrongSell"), Some("Hold"), None }
Outcomes(amount) == { Win(RMul(amount, Rat(9, 5))), Lose, Draw }

TraderInit ==
    /\ modifier \in Modifiers
    /\ trade_amount = F(10)
    /\ balance = F(100)
    /\ last_result = None
    /\ staked = None
    /\ before = F(100)
    /\ mult = None
    /\ tsteps = 0

TraderIdle ==
    /\ modifier = ModifierNone
    /\ trade_amount = F(0)
    /\ balance = F(0)
    /\ last_result = None
    /\ staked = None
    /\ before = F(0)
    /\ mult = None
    /\ tsteps = 0

\* one pass of the `while let Some(candle)` loop: Trader::step, the platform's
\* result for the trade it placed, and update_statistics
TraderCandle(signal) ==
    /\ tsteps < MaxSteps
    /\ tsteps' = tsteps + 1
    /\ IF IsSome(signal) /\ signal.v # "Hold"
       THEN /\ modifier' = ModifierModify(modifier, trade_amount, last_result).mo
            /\ staked' = Some(ModifierModify(modifier, trade_amount, last_result).out)
            /\ mult' = IF modifier.type = "Martingale" /\ IsSome(last_result)
                       THEN Some(calculate_multiplier(modifier.martingale, last_result.v).out)
                       ELSE mult
            /\ before' = balance
            /\ \E outcome \in Outcomes(staked'.v) :
                  /\ balance' = update_statistics(balance, trade_amount, outcome)
                  /\ last_result' = Some(outcome)
            /\ UNCHANGED trade_amount
       ELSE UNCHANGED <<modifier, trade_amount, balance, last_result, staked, before, mult>>

TraderNext == \E signal \in TradeSignals : TraderCandle(signal)

(***************************************************************************)
(* Specifications                                                          *)
(***************************************************************************)
InitInd == IndInit /\ CondIdle /\ NodeIdle /\ StratIdle /\ CmpIdle /\ NewIdle /\ QueueIdle /\ ShapeIdle /\ GatorIdle /\ BarIdle /\ MedianIdle /\ CloneIdle /\ TraderIdle
NextInd == IndNext /\ UNCHANGED <<condVars, nodeVars, stratVars, cmpVars, newVars, queueVars, shapeVars, gatorVars, barVars, medianVars, cloneVars, traderVars>>
SpecInd == InitInd /\ [][NextInd]_vars

InitPrice == IndInit /\ CondIdle /\ NodeIdle /\ StratIdle /\ CmpIdle /\ NewIdle /\ QueueIdle /\ ShapeIdle /\ GatorIdle /\ BarIdle /\ MedianIdle /\ CloneIdle /\ TraderIdle
NextPrice == PriceNext /\ UNCHANGED <<condVars, nodeVars, stratVars, cmpVars, newVars, queueVars, shapeVars, gatorVars, barVars, medianVars, cloneVars, traderVars>>
SpecPrice == InitPrice /\ [][NextPrice]_vars

InitCond == CondInit /\ IndIdle /\ NodeIdle /\ StratIdle /\ CmpIdle /\ NewIdle /\ QueueIdle /\ ShapeIdle /\ GatorIdle /\ BarIdle /\ MedianIdle /\ CloneIdle /\ TraderIdle
NextCond == CondNext /\ UNCHANGED <<indVars, nodeVars, stratVars, cmpVars, newVars, queueVars, shapeVars, gatorVars, barVars, medianVars, cloneVars, traderVars>>
SpecCond == InitCond /\ [][NextCond]_vars

InitNode == NodeInit /\ IndIdle /\ CondIdle /\ StratIdle /\ CmpIdle /\ NewIdle /\ QueueIdle /\ ShapeIdle /\ GatorIdle /\ BarIdle /\ MedianIdle /\ CloneIdle /\ TraderIdle
NextNode == NodeNext /\ UNCHANGED <<indVars, condVars, stratVars, cmpVars, newVars, queueVars, shapeVars, gatorVars, barVars, medianVars, cloneVars, traderVars>>
SpecNode == InitNode /\ [][NextNode]_vars

Init == StratInit /\ IndIdle /\ CondIdle /\ NodeIdle /\ CmpIdle /\ NewIdle /\ QueueIdle /\ ShapeIdle /\ GatorIdle /\ BarIdle /\ MedianIdle /\ CloneIdle /\ TraderIdle
Next == StratNext /\ UNCHANGED <<indVars, condVars, nodeVars, cmpVars, newVars, queueVars, shapeVars, gatorVars, barVars, medianVars, cloneVars, traderVars>>
Spec == Init /\ [][Next]_vars

InitPersist == StratInit /\ IndIdle /\ CondIdle /\ NodeIdle /\ CmpIdle /\ NewIdle /\ QueueIdle /\ ShapeIdle /\ GatorIdle /\ BarIdle /\ MedianIdle /\ CloneIdle /\ TraderIdle
NextPersist == PersistNext /\ UNCHANGED <<indVars, condVars, nodeVars, cmpVars, newVars, queueVars, shapeVars, gatorVars, barVars, medianVars, cloneVars, traderVars>>
SpecPersist == InitPersist /\ [][NextPersist]_vars

InitCmp == CmpInit /\ IndIdle /\ CondIdle /\ NodeIdle /\ StratIdle /\ NewIdle /\ QueueIdle /\ ShapeIdle /\ GatorIdle /\ BarIdle /\ MedianIdle /\ CloneIdle /\ TraderIdle
NextCmp == CmpNext /\ UNCHANGED <<indVars, condVars, nodeVars, stratVars, newVars, queueVars, shapeVars, gatorVars, barVars, medianVars, cloneVars, traderVars>>
SpecCmp == InitCmp /\ [][NextCmp]_vars

InitNew == NewInit /\ IndIdle /\ CondIdle /\ NodeIdle /\ StratIdle /\ CmpIdle /\ QueueIdle /\ ShapeIdle /\ GatorIdle /\ BarIdle /\ MedianIdle /\ CloneIdle /\ TraderIdle
NextNew == NewNext /\ UNCHANGED <<indVars, condVars, nodeVars, stratVars, cmpVars, queueVars, shapeVars, gatorVars, barVars, medianVars, cloneVars, traderVars>>
SpecNew == InitNew /\ [][NextNew]_vars

InitQueue == QueueInit /\ IndIdle /\ CondIdle /\ NodeIdle /\ StratIdle /\ CmpIdle /\ NewIdle /\ ShapeIdle /\ GatorIdle /\ BarIdle /\ MedianIdle /\ CloneIdle /\ TraderIdle
NextQueue == QueueNext /\ UNCHANGED <<indVars, condVars, nodeVars, stratVars, cmpVars, newVars, shapeVars, gatorVars, barVars, medianVars, cloneVars, traderVars>>
SpecQueue == InitQueue /\ [][NextQueue]_vars

InitDeref == QueueInit /\ IndIdle /\ CondIdle /\ NodeIdle /\ StratIdle /\ CmpIdle /\ NewIdle /\ ShapeIdle /\ GatorIdle /\ BarIdle /\ MedianIdle /\ CloneIdle /\ TraderIdle
NextDeref == DerefNext /\ UNCHANGED <<indVars, condVars, nodeVars, stratVars, cmpVars, newVars, shapeVars, gatorVars, barVars, medianVars, cloneVars, traderVars>>
SpecDeref == InitDeref /\ [][NextDeref]_vars

InitShape == ShapeInit /\ IndIdle /\ CondIdle /\ NodeIdle /\ StratIdle /\ CmpIdle /\ NewIdle /\ QueueIdle /\ GatorIdle /\ BarIdle /\ MedianIdle /\ CloneIdle /\ TraderIdle
NextShape == ShapeNext /\ UNCHANGED <<indVars, condVars, nodeVars, stratVars, cmpVars, newVars, queueVars, gatorVars, barVars, medianVars, cloneVars, traderVars>>
SpecShape == InitShape /\ [][NextShape]_vars

InitPeriod == PeriodInit /\ IndIdle /\ CondIdle /\ StratIdle /\ CmpIdle /\ NewIdle /\ QueueIdle /\ ShapeIdle /\ GatorIdle /\ BarIdle /\ MedianIdle /\ CloneIdle /\ TraderIdle
NextPeriod == NodeMaxPeriodOp /\ UNCHANGED <<indVars, condVars, stratVars, cmpVars, newVars, queueVars, shapeVars, gatorVars, barVars, medianVars, cloneVars, traderVars>>
SpecPeriod == InitPeriod /\ [][NextPeriod]_vars

InitGator == GatorInit /\ IndIdle /\ CondIdle /\ NodeIdle /\ StratIdle /\ CmpIdle /\ NewIdle /\ QueueIdle /\ ShapeIdle /\ BarIdle /\ MedianIdle /\ CloneIdle /\ TraderIdle
NextGator == GatorNext /\ UNCHANGED <<indVars, condVars, nodeVars, stratVars, cmpVars, newVars, queueVars, shapeVars, barVars, medianVars, cloneVars, traderVars>>
SpecGator == InitGator /\ [][NextGator]_vars

InitBars == BarInit /\ IndIdle /\ NodeIdle /\ StratIdle /\ CmpIdle /\ NewIdle /\ QueueIdle /\ ShapeIdle /\ GatorIdle /\ MedianIdle /\ CloneIdle /\ TraderIdle
NextBars == BarNext /\ UNCHANGED <<indVars, nodeVars, stratVars, cmpVars, newVars, queueVars, shapeVars, gatorVars, medianVars, cloneVars, traderVars>>
SpecBars == InitBars /\ [][NextBars]_vars

InitMedian == MedianInit /\ IndIdle /\ CondIdle /\ NodeIdle /\ StratIdle /\ CmpIdle /\ NewIdle /\ QueueIdle /\ ShapeIdle /\ GatorIdle /\ BarIdle /\ CloneIdle /\ TraderIdle
NextMedian == MedianNext /\ UNCHANGED <<indVars, condVars, nodeVars, stratVars, cmpVars, newVars, queueVars, shapeVars, gatorVars, barVars, cloneVars, traderVars>>
SpecMedian == InitMedian /\ [][NextMedian]_vars

InitClone == CloneInit /\ IndIdle /\ CondIdle /\ NodeIdle /\ StratIdle /\ CmpIdle /\ NewIdle /\ QueueIdle /\ ShapeIdle /\ GatorIdle /\ BarIdle /\ MedianIdle /\ TraderIdle
NextClone == CloneNext /\ UNCHANGED <<indVars, condVars, nodeVars, stratVars, cmpVars, newVars, queueVars, shapeVars, gatorVars, barVars, medianVars, traderVars>>
SpecClone == InitClone /\ [][NextClone]_vars

InitTrader == TraderInit /\ IndIdle /\ CondIdle /\ NodeIdle /\ StratIdle /\ CmpIdle /\ NewIdle /\ QueueIdle /\ ShapeIdle /\ GatorIdle /\ BarIdle /\ MedianIdle /\ CloneIdle
NextTrader == TraderNext /\ UNCHANGED <<indVars, condVars, nodeVars, stratVars, cmpVars, newVars, queueVars, shapeVars, gatorVars, barVars, medianVars, cloneVars>>
SpecTrader == InitTrader /\ [][NextTrader]_vars

(***************************************************************************)
(* Structure of a tree, read off the tree itself                           *)
(***************************************************************************)
\* every If at any depth has an else branch and every Sequence has a child
RECURSIVE WellFormed(_)
WellFormed(n) ==
    CASE n.type = "If" ->
           /\ IsSome(n.else_branch)
           /\ WellFormed(n.then_branch)
           /\ WellFormed(n.else_branch.v)
      [] n.type = "Sequence" ->
           /\ n.nodes # <<>>
           /\ \A i \in 1..Len(n.nodes) : WellFormed(n.nodes[i])
      [] n.type = "Timeout" -> WellFormed(n.action)
      [] OTHER -> TRUE

\* the IndicatorState wrappers held by the conditions of a tree
RECURSIVE ConditionIndicators(_)
ConditionIndicators(c) ==
    CASE c.type = "Value" -> {c.indicator}
      [] c.type = "Indicator" -> {c.left, c.right}
      [] c.type \in {"And", "Or"} ->
           UNION {ConditionIndicators(c.conds[i]) : i \in 1..Len(c.conds)}
      [] c.type = "Not" -> ConditionIndicators(c.cond)

RECURSIVE NodeIndicators(_)
NodeIndicators(n) ==
    CASE n.type = "If" ->
           ConditionIndicators(n.condition) \cup NodeIndicators(n.then_branch)
               \cup (IF IsSome(n.else_branch) THEN NodeIndicators(n.else_branch.v) ELSE {})
      [] n.type = "Sequence" -> UNION {NodeIndicators(n.nodes[i]) : i \in 1..Len(n.nodes)}
      [] n.type = "Timeout" -> NodeIndicators(n.action)
      [] OTHER -> {}

(***************************************************************************)
(* C1: for a Strategy whose tree has max_period() = p, each of the first p *)
(* evaluate() calls returns Ok(None) and call p + 1 is the first to return *)
(* an Action.  Fails for a tree whose only indicator has period 0: call 1  *)
(* is already in Ready, which evaluates without updating (see C2), and      *)
(* returns the NotInitialized error.                                       *)
(***************************************************************************)
C1_WarmUpBoundary ==
    slast = "evaluate" =>
        LET p == NodePeriod(strategy.nodes)
        IN  /\ calls <= p => result = Some(Ok(None))
            /\ calls = p + 1 => (result.v.ok /\ IsSome(result.v.v))

(***************************************************************************)
(* C2: every indicator in the tree is advanced exactly once per bar given  *)
(* to Strategy::evaluate, in warm-up and in Ready alike: after the k-th    *)
(* call each wrapper has been updated k times.  Fails in Ready, where      *)
(* evaluate() only reads the cached outputs.                               *)
(***************************************************************************)
C2_AdvancedOncePerBar ==
    slast = "evaluate" => \A w \in NodeIndicators(strategy.nodes) : w.updates = calls

(***************************************************************************)
(* C6: StrategyNode::evaluate called on a freshly constructed tree that    *)
(* passes validate(), with no update() before it, returns Ok with an       *)
(* Action.  Fails: the conditions read outputs no update() has stored.     *)
(***************************************************************************)
C6_FreshEvaluateIsOk ==
    (nlast = "evaluate" /\ nfresh /\ NodeValidate(node).ok) => nres.v.ok

(***************************************************************************)
(* C9: a tree with an If without else or an empty Sequence is rejected     *)
(* before any evaluate(): the tree of a Strategy is never evaluated while  *)
(* it has such a node.  Fails: Strategy::new accepts every tree.           *)
(***************************************************************************)
C9_MalformedNeverEvaluated ==
    (slast = "evaluate" /\ strategy.state = Ready) => WellFormed(strategy.nodes)

(***************************************************************************)
(* C10: validate() returns Ok only if every If at any depth (in Sequence   *)
(* children, If branches, Timeout inner nodes) has an else branch and      *)
(* every Sequence has at least one child.                                  *)
(***************************************************************************)
C10_ValidateOkOnlyIfWellFormed ==
    (nlast = "validate" /\ nres.v.ok) => WellFormed(node)

C10_Witness ==
    /\ nlast = "validate"
    /\ nres = Some(Ok("unit"))
    /\ node.type = "Sequence"
    /\ \E i \in 1..Len(node.nodes) :
           /\ node.nodes[i].type = "Timeout"
           /\ node.nodes[i].action.type = "If"

(***************************************************************************)
(* C3: after reset(), an indicator fed an input sequence produces the same *)
(* outputs as a freshly constructed instance with the same parameters.     *)
(* Fails for StochasticOscillator, whose reset() leaves the %D SMA as is.  *)
(***************************************************************************)
C3_ResetReproducesFresh == origin = "reset" => iout = rout

(***************************************************************************)
(* C4: an indicator obtained by a serialize/deserialize round trip         *)
(* produces the same outputs as the instance the constructor builds from   *)
(* the same parameters.  Fails for SmoothedMovingAverage: deserialize      *)
(* does not push the leading 0.0 that new() pushes.                        *)
(***************************************************************************)
C4_SerdeReproducesNew == origin = "deser" => iout = rout

(***************************************************************************)
(* C5: evaluating a Value or Indicator condition one of whose wrapped      *)
(* indicators has received no update() since construction, reset or        *)
(* deserialization returns the NotInitialized error.                       *)
(***************************************************************************)
LeafNotUpdated(c) ==
    \/ c.type = "Value" /\ c.indicator.updates = 0
    \/ c.type = "Indicator" /\ (c.left.updates = 0 \/ c.right.updates = 0)

IsLeafCross(c) == IsLeaf(c) /\ IsCross(c.operator)

Crossed(op, prev, cur, thr) ==
    IF op = "CrossOver" THEN ~RGt(prev, thr) /\ RGt(cur, thr)
    ELSE ~RLt(prev, thr) /\ RLt(cur, thr)

C8_CrossSemantics ==
    IsLeafCross(cond) =>
        /\ (clast = "evaluate" /\ cevals >= 2 /\ cres.v.ok) =>
               cres.v.v = Crossed(cond.operator.op, cprev.v.v, clhs.v.v, crhs.v.v)
        /\ cevals >= 1 => cond.operator.prev_value = clhs

C8_Witness ==
    /\ IsLeafCross(cond)
    /\ clast = "evaluate"
    /\ cevals >= 2
    /\ cres = Some(Ok(TRUE))
    /\ cprev.v.v = crhs.v.v

(***************************************************************************)
(* Defects of a tree, read off the tree itself                             *)
(***************************************************************************)
RECURSIVE HasMissingElse(_)
HasMissingElse(n) ==
    CASE n.type = "If" ->
           \/ IsNone(n.else_branch)
           \/ HasMissingElse(n.then_branch)
           \/ IsSome(n.else_branch) /\ HasMissingElse(n.else_branch.v)
      [] n.type = "Sequence" -> \E i \in 1..Len(n.nodes) : HasMissingElse(n.nodes[i])
      [] n.type = "Timeout" -> HasMissingElse(n.action)
      [] OTHER -> FALSE

RECURSIVE HasEmptySequence(_)
HasEmptySequence(n) ==
    CASE n.type = "If" ->
           \/ HasEmptySequence(n.then_branch)
           \/ IsSome(n.else_branch) /\ HasEmptySequence(n.else_branch.v)
      [] n.type = "Sequence" ->
           n.nodes = <<>> \/ \E i \in 1..Len(n.nodes) : HasEmptySequence(n.nodes[i])
      [] n.type = "Timeout" -> HasEmptySequence(n.action)
      [] OTHER -> FALSE

\* the conditions of the If nodes of a tree
RECURSIVE NodeConditions(_)
NodeConditions(n) ==
    CASE n.type = "If" ->
           {n.condition} \cup NodeConditions(n.then_branch)
               \cup (IF IsSome(n.else_branch) THEN NodeConditions(n.else_branch.v) ELSE {})
      [] n.type = "Sequence" -> UNION {NodeConditions(n.nodes[i]) : i \in 1..Len(n.nodes)}
      [] n.type = "Timeout" -> NodeConditions(n.action)
      [] OTHER -> {}

(***************************************************************************)
(* C11 as stated: validate() on a tree that contains an If without else    *)
(* fails with MissingElseBranch, and on a tree that contains an empty      *)
(* Sequence it fails with EmptySequence.  Fails for a tree with a second   *)
(* defect that validate() meets first.                                     *)
(***************************************************************************)
C11_ErrorOfEveryDefect ==
    nlast = "validate" =>
        /\ HasMissingElse(node) => nres.v = Err("MissingElseBranch")
        /\ HasEmptySequence(node) => nres.v = Err("EmptySequence")

(***************************************************************************)
(* C11 amended: validate() fails on every tree that contains an If without *)
(* else or an empty Sequence; the error is MissingElseBranch when that is  *)
(* the tree's only kind of defect, EmptySequence likewise.  With several   *)
(* defects the error is that of the first one validate() meets.            *)
(***************************************************************************)
C11_ErrorOfOnlyDefect ==
    nlast = "validate" =>
        /\ (HasMissingElse(node) \/ HasEmptySequence(node)) => ~nres.v.ok
        /\ \A c \in NodeConditions(node) : ~ConditionValidate(c).ok => ~nres.v.ok
        /\ (\A c \in NodeConditions(node) : ConditionValidate(c).ok) =>
               /\ (HasMissingElse(node) /\ ~HasEmptySequence(node)) =>
                      nres.v = Err("MissingElseBranch")
               /\ (HasEmptySequence(node) /\ ~HasMissingElse(node)) =>
                      nres.v = Err("EmptySequence")

C11_Witness ==
    /\ nlast = "validate"
    /\ nres = Some(Err("MissingElseBranch"))
    /\ node.type = "If"
    /\ IsSome(node.else_branch)
    /\ ~HasEmptySequence(node)

(***************************************************************************)
(* C12: Condition::validate() returns Ok only if every indicator wrapped   *)
(* anywhere in the condition tree has period() >= 1 and, at every Value or *)
(* Indicator comparison, the indicator's output shape equals the shape of  *)
(* what it is compared with.                                               *)
(***************************************************************************)
RECURSIVE ShapesMatch(_)
ShapesMatch(c) ==
    CASE c.type = "Value" ->
           output_shape(c.value) = Ok(IndicatorOutputShape(c.indicator.indicator))
      [] c.type = "Indicator" ->
           IndicatorOutputShape(c.left.indicator) = IndicatorOutputShape(c.right.indicator)
      [] c.type \in {"And", "Or"} -> \A i \in 1..Len(c.conds) : ShapesMatch(c.conds[i])
      [] c.type = "Not" -> ShapesMatch(c.cond)

C12_ValidateOkOnlyIfTyped ==
    (clast = "validate" /\ cres.v.ok) =>
        /\ \A w \in ConditionIndicators(cond) : IndicatorPeriod(w.indicator) >= 1
        /\ ShapesMatch(cond)

C12_Witness ==
    /\ clast = "validate"
    /\ cres = Some(Ok("unit"))
    /\ cond.type = "And"
    /\ \E i \in 1..Len(cond.conds) : cond.conds[i].type = "Indicator"

(***************************************************************************)
(* C13: once a (condition) tree has passed validate() and its indicators   *)
(* have been updated, evaluate() never returns a shape or output-type       *)
(* error.  Fails for a Custom threshold that wraps a one-element Array:    *)
(* output_shape() takes it for Shape(1), resolve() rejects it on every bar. *)
(***************************************************************************)
ShapeErrors ==
    {"IncorrectOutputType", "InvalidOutputShape", "IncompatibleShapes", "TypeMismatch",
     "LengthMismatch"}

C13_NoShapeErrorAfterValidate ==
    (/\ clast = "evaluate"
     /\ ConditionValidate(cond).ok
     /\ \A w \in ConditionIndicators(cond) : w.updates > 0)
        => (cres.v.ok \/ cres.v.err \notin ShapeErrors)

(***************************************************************************)
(* C14: comparing a Single output with an Array whose length is not 1,     *)
(* through any operator, yields a TypeMismatch/LengthMismatch error and    *)
(* never a boolean.  Fails: Operator::evaluate returns Ok(false).          *)
(***************************************************************************)
C14_SingleArrayIsError ==
    (/\ IsSome(ores)
     /\ olhs.tag = "Single"
     /\ orhs.tag = "Array"
     /\ Len(orhs.arr) # 1)
        => ores.v \in {Err("TypeMismatch"), Err("LengthMismatch")}

(***************************************************************************)
(* C15: Equals evaluates to true exactly when the partial ordering of its  *)
(* operands is Equal, so an operand compared with a sentinel that compares *)
(* Equal satisfies Equals.  Fails: Equals uses the derived equality of     *)
(* OutputType, under which values of different variants are never equal.   *)
(***************************************************************************)
C15_EqualsIsOrderingEqual ==
    (IsSome(ores) /\ oper.op = "Equals") =>
        ores.v = Ok(partial_cmp(olhs, orhs) = Some("Equal"))

(***************************************************************************)
(* C16: two Arrays compare as ordering o only if they have equal length    *)
(* and every pair of elements compares as o; if the lengths differ or a    *)
(* pair compares differently or not at all, every operator evaluates to    *)
(* false.  Fails: a pair without an ordering (NaN) is left out, and the    *)
(* remaining pairs decide.                                                 *)
(***************************************************************************)
AllPairs(a, b, o) ==
    /\ Len(a) = Len(b)
    /\ \A i \in 1..Len(a) : F64PartialCmp(a[i], b[i]) = Some(o)

C16_ArraysAgreeOnEveryPair ==
    (IsSome(ores) /\ olhs.tag = "Array" /\ orhs.tag = "Array") =>
        /\ \A o \in {"Less", "Equal", "Greater"} :
               partial_cmp(olhs, orhs) = Some(o) => AllPairs(olhs.arr, orhs.arr, o)
        /\ (\A o \in {"Less", "Equal", "Greater"} : ~AllPairs(olhs.arr, orhs.arr, o))
               => ores.v = Ok(FALSE)

(***************************************************************************)
(* The last evaluate() seen from outside: the node it was called on and    *)
(* what each child of that node returns for the same bar                   *)
(***************************************************************************)
Evaluated(type) == nlast = "evaluate" /\ nargs.v.node.type = type
Child(i) == NodeEvaluate(nargs.v.node.nodes[i], nargs.v.data, nargs.v.order)
Inner == NodeEvaluate(nargs.v.node.action, nargs.v.data, nargs.v.order)
Children == 1..Len(nargs.v.node.nodes)
Votes(a) == Cardinality({i \in Children : Child(i).res = Ok(a)})
Signals == {"StrongBuy", "Buy", "Sell", "StrongSell"}

(***************************************************************************)
(* C17: a Sequence in Majority mode returns the action that occurs most    *)
(* often among its children's non-Hold results, and Hold when two or more  *)
(* actions tie for the highest count.  Fails on a tie: one of the tied     *)
(* actions is returned.                                                    *)
(***************************************************************************)
C17_MajorityTieIsHold ==
    (Evaluated("Sequence") /\ nargs.v.node.mode = Majority /\ nres.v.ok) =>
        IF \E a \in Signals : Votes(a) > 0 /\ \A b \in Signals \ {a} : Votes(b) < Votes(a)
        THEN Votes(nres.v.v) > 0 /\ \A b \in Signals \ {nres.v.v} : Votes(b) < Votes(nres.v.v)
        ELSE nres.v.v = "Hold"

(***************************************************************************)
(* C18: a Sequence in Percentage(p) mode returns an action only if at      *)
(* least p percent of the sequence's nodes agree on it.  Fails: the share  *)
(* is taken of the non-Hold results, not of the nodes.                     *)
(***************************************************************************)
C18_PercentageOfNodes ==
    (/\ Evaluated("Sequence")
     /\ nargs.v.node.mode.mode = "Percentage"
     /\ nres.v.ok
     /\ nres.v.v # "Hold")
        => Votes(nres.v.v) * 100 >= nargs.v.node.mode.percentage * Len(nargs.v.node.nodes)

(***************************************************************************)
(* C19: a Sequence in First or Any mode returns the result of its first    *)
(* child that does not yield Hold, evaluates the children up to that one   *)
(* and no later child, and returns Hold only if every child yields Hold.   *)
(***************************************************************************)
Signal(i) == Child(i).res.ok /\ Child(i).res.v # "Hold"
FirstSignal == CHOOSE i \in Children : Signal(i) /\ \A j \in 1..(i - 1) : ~Signal(j)

C19_FirstNonHoldStops ==
    (Evaluated("Sequence") /\ nargs.v.node.mode \in {First, AnyMode} /\ nres.v.ok) =>
        IF \A i \in Children : Child(i).res = Ok("Hold")
        THEN /\ nres.v.v = "Hold"
             /\ \A i \in Children : node.nodes[i] = Child(i).node
        ELSE /\ nres.v = Child(FirstSignal).res
             /\ nres.v.v # "Hold"
             /\ \A i \in 1..FirstSignal : node.nodes[i] = Child(i).node
             /\ \A i \in Children : i > FirstSignal => node.nodes[i] = nargs.v.node.nodes[i]

C19_Witness ==
    /\ Evaluated("Sequence")
    /\ nargs.v.node.mode \in {First, AnyMode}
    /\ nres.v.ok
    /\ Len(nargs.v.node.nodes) >= 2
    /\ Signal(1)
    /\ Signal(2)
    /\ Child(2).node # nargs.v.node.nodes[2]
    /\ node.nodes[2] = nargs.v.node.nodes[2]

(***************************************************************************)
(* C20: after the inner node of a Timeout yields a non-Hold action, the    *)
(* next `cooldown` evaluations yield Hold without evaluating the inner     *)
(* node and the one after them evaluates it again; an inner Hold starts no *)
(* cooldown, so the inner node is evaluated on every call until it yields  *)
(* an action.                                                              *)
(***************************************************************************)
C20_TimeoutCooldown ==
    Evaluated("Timeout") =>
        IF IsSome(nargs.v.quiet) /\ nargs.v.quiet.v < nargs.v.node.cooldown
        THEN /\ nres.v = Ok("Hold")
             /\ node.action = nargs.v.node.action
        ELSE /\ nres.v = Inner.res
             /\ node.action = Inner.node

C20_Witness ==
    /\ Evaluated("Timeout")
    /\ nargs.v.node.cooldown = 2
    /\ nargs.v.quiet = Some(2)
    /\ nres.v.ok
    /\ nres.v.v # "Hold"

(***************************************************************************)
(* C21: a Strategy that is Ready is Ready after every further evaluate(),   *)
(* whatever the bar and whatever the call returns; a reset() puts it in    *)
(* Progress(0), and no other operation takes it out of Ready.              *)
(***************************************************************************)
C21_ReadyIsTerminal ==
    [][ /\ (strategy.state = Ready /\ slast' = "evaluate") => strategy'.state = Ready
        /\ (strategy.state = Ready /\ strategy'.state # Ready) =>
               (slast' = "reset" /\ strategy'.state = Progress(0))
        /\ slast' = "reset" => strategy'.state = Progress(0) ]_vars

C21_Witness ==
    /\ slast = "evaluate"
    /\ strategy.state = Ready
    /\ calls > NodePeriod(strategy.nodes) + 2
    /\ ~result.v.ok

(***************************************************************************)
(* C22: Indicator::next called with a plain number returns Ok for every    *)
(* variant.  Fails for the Stoch and Obv variants, which return the        *)
(* Unexpected error whatever the number is.                                *)
(***************************************************************************)
C22_PriceNeverFails == origin = "price" => iout.v.ok

(***************************************************************************)
(* The period parameters of a request, and the minimum each constructor    *)
(* enforces on them                                                        *)
(***************************************************************************)
PeriodsOf(r) ==
    CASE r.type \in {"None", "Obv"} -> {}
      [] r.type = "Stoch" -> {r.period}
      [] r.type = "Macd" -> {r.fast_ema, r.slow_ema, r.signal_ema}
      [] r.type = "Alligator" -> {r.jaw_period, r.teeth_period, r.lips_period}
      [] OTHER -> {r.period}

ShiftsOf(r) ==
    IF r.type = "Alligator" THEN {r.jaw_shift, r.teeth_shift, r.lips_shift} ELSE {}

BelowMinimum(r) ==
    \/ 0 \in PeriodsOf(r)
    \/ r.type \in {"Alligator", "Smma"} /\ \E x \in PeriodsOf(r) : x < 2
    \/ \E x \in ShiftsOf(r) : x < 1

(***************************************************************************)
(* C23 as stated: every constructor fails with InvalidParameter when a     *)
(* period is 0 or below the minimum, Keltner Channel and Alligator         *)
(* rejecting every period below 2 and Alligator every shift below 1.       *)
(* Fails for KeltnerChannel::new(1, m), which succeeds.                    *)
(***************************************************************************)
C23_KeltnerBelowTwo ==
    (via = "new" /\ (BelowMinimum(req) \/ (req.type = "Kc" /\ req.period < 2)))
        => built.v = Err("InvalidParameter")

(***************************************************************************)
(* C23 amended: every constructor fails with InvalidParameter when a       *)
(* period is 0; Alligator and SMMA reject every period below 2, Alligator  *)
(* every shift below 1; Keltner Channel rejects period 0 only and accepts  *)
(* every period from 1 on.                                                 *)
(***************************************************************************)
C23_RejectsBelowMinimum ==
    via = "new" =>
        /\ BelowMinimum(req) => built.v = Err("InvalidParameter")
        /\ (req.type = "Kc" /\ req.period >= 1) => built.v.ok

C23_Witness ==
    /\ via = "new"
    /\ req.type = "Alligator"
    /\ PeriodsOf(req) = {2}
    /\ req.jaw_shift = 1 /\ req.teeth_shift = 1 /\ req.lips_shift = 0
    /\ built.v = Err("InvalidParameter")

(***************************************************************************)
(* C24: every Indicator that a constructor or a deserialization returns    *)
(* has period() >= 1, unless it is the None variant.  Fails for the        *)
(* variants whose Deserialize takes the period as written: Ema, Mae, Stoch.*)
(***************************************************************************)
C24_PeriodAtLeastOne ==
    (IsSome(built) /\ built.v.ok /\ built.v.v.type # "None")
        => IndicatorPeriod(built.v.v) >= 1

(***************************************************************************)
(* C25: Indicator::macd returns an error when a period is 0 or when        *)
(* slow_period <= fast_period.  Fails: only the zero periods are rejected. *)
(***************************************************************************)
C25_MacdSlowAboveFast ==
    (via = "new" /\ req.type = "Macd"
        /\ (0 \in PeriodsOf(req) \/ req.slow_ema <= req.fast_ema))
        => ~built.v.ok

(***************************************************************************)
(* C26: a Queue never holds more elements than its capacity, and its       *)
(* capacity is at least 1, whatever is done to it through its public       *)
(* interface.  Fails: DerefMut hands out the Vec inside, whose own push    *)
(* appends without evicting.                                               *)
(***************************************************************************)
C26_LenWithinCapacity ==
    /\ Len(queue.queue) <= queue.period
    /\ queue.period >= 1

(***************************************************************************)
(* C27: the n-th push since construction or reset onto a Queue of capacity *)
(* c returns None while n <= c; for n > c, when the Queue already holds c  *)
(* elements, it returns the value given to push number n - c, and the      *)
(* Queue then holds the last c values in order.                            *)
(***************************************************************************)
C27_PushEvictsOldest ==
    qlast = "push" =>
        LET n == Len(pushed)
            c == queue.period
        IN  /\ popped.v = IF n > c THEN Some(pushed[n - c]) ELSE None
            /\ queue.queue = IF n > c THEN SubSeq(pushed, n - c + 1, n) ELSE pushed

C27_Witness ==
    /\ qlast = "push"
    /\ queue.period = 2
    /\ Len(pushed) = 4
    /\ pushed[2] # pushed[1] /\ pushed[2] # pushed[3] /\ pushed[2] # pushed[4]
    /\ popped = Some(Some(pushed[2]))

(***************************************************************************)
(* C28: after a Strategy is serialized and deserialized its warm-up state  *)
(* is Progress(0), every wrapped indicator of its tree is as its           *)
(* constructor builds it from the same parameters, every cached previous   *)
(* output is empty and every CrossOver/CrossUnder previous-value slot is   *)
(* empty.                                                                  *)
(***************************************************************************)
RECURSIVE ConditionOperators(_)
ConditionOperators(c) ==
    CASE c.type \in {"Value", "Indicator"} -> {c.operator}
      [] c.type \in {"And", "Or"} ->
           UNION {ConditionOperators(c.conds[i]) : i \in 1..Len(c.conds)}
      [] c.type = "Not" -> ConditionOperators(c.cond)

NodeOperators(n) == UNION {ConditionOperators(c) : c \in NodeConditions(n)}

Pristine(w) == w.previous_output = None /\ w.indicator = IndicatorRebuild(w.indicator)
SlotEmpty(operator) == IsCross(operator) => operator.prev_value = None

C28_RoundTripFromZero ==
    slast = "deser" =>
        /\ strategy.state = Progress(0)
        /\ \A w \in NodeIndicators(strategy.nodes) : Pristine(w)
        /\ \A operator \in NodeOperators(strategy.nodes) : SlotEmpty(operator)

(***************************************************************************)
(* C29 as stated: the dummy zero that SMMA puts in its window at           *)
(* construction is part of the seed average, so the first computed average *)
(* differs from the plain mean of the first `period` inputs.               *)
(***************************************************************************)
Seeding == origin = "price" /\ ind.type = "Smma" /\ Len(fed) = ind.period
PlainMean == RDiv(RSum(fed), F(Len(fed)))

C29_ZeroSkewsSeed == Seeding => iout.v # Ok(Single(PlainMean))

(***************************************************************************)
(* C29, amended: the dummy zero is the element evicted by the push that    *)
(* fills the window, so it is not part of the seed average.  The first     *)
(* period - 1 calls return their input, and the call number `period`       *)
(* returns, and stores, the plain mean of the first `period` inputs; the   *)
(* window then holds exactly those inputs.                                 *)
(***************************************************************************)
C29_SeedIsPlainMean ==
    (origin = "price" /\ ind.type = "Smma") =>
        /\ (Len(fed) \in 1..(ind.period - 1)) =>
               /\ iout.v = Ok(Single(fed[Len(fed)]))
               /\ ind.smma = None
               /\ ind.queue.queue = <<F(0)>> \o fed
        /\ Seeding =>
               /\ iout.v = Ok(Single(PlainMean))
               /\ ind.smma = Some(PlainMean)
               /\ ind.queue.queue = fed

C29_Witness ==
    /\ Seeding
    /\ ind.period = 3
    /\ fed = <<F(1), F(2), F(3)>>
    /\ iout.v = Ok(Single(F(2)))

(***************************************************************************)
(* C30: after reset() on a condition tree every wrapped indicator, at      *)
(* every depth, is as its constructor builds it from the same parameters,  *)
(* every cached previous output is empty and every CrossOver/CrossUnder    *)
(* previous-value slot is empty.                                           *)
(***************************************************************************)
C30_ResetClearsTree ==
    clast = "reset" =>
        /\ \A w \in ConditionIndicators(cond) : Pristine(w)
        /\ \A operator \in ConditionOperators(cond) : SlotEmpty(operator)

(***************************************************************************)
(* C31: validate() rejects Shape(0) and an empty Tensor; a Tensor whose    *)
(* sub-shapes are all Shape(1) validates to Shape(count); so a Custom      *)
(* value of n scalars has the shape of a plain array of n numbers.         *)
(***************************************************************************)
IsScalar(value) == value.tag \notin {"Array", "Custom", "Statics"}
AllOnes(shapes) == \A i \in 1..Len(shapes) : shapes[i] = Shape(1)
Ones(n) == [i \in 1..n |-> F(1)]

C31_TensorOfOnesCollapses ==
    /\ sarg.op = "validate" =>
          /\ sarg.shape \in {Shape(0), Tensor(<<>>)} => ~sres.v.ok
          /\ (sarg.shape.kind = "Tensor" /\ sarg.shape.shapes # <<>> /\ AllOnes(sarg.shape.shapes))
                 => sres.v = Ok(Shape(Len(sarg.shape.shapes)))
    /\ (/\ sarg.op = "output_shape"
        /\ sarg.value.tag = "Custom"
        /\ sarg.value.vec # <<>>
        /\ \A i \in 1..Len(sarg.value.vec) : IsScalar(sarg.value.vec[i])) =>
          /\ sres.v = Ok(Shape(Len(sarg.value.vec)))
          /\ sres.v = output_shape(Array(Ones(Len(sarg.value.vec))))

C31_Witness ==
    /\ sarg.op = "output_shape"
    /\ sarg.value = Custom(<<Single(F(1)), Placeholder("Close"), Single(F(1))>>)
    /\ sres = Some(Ok(Shape(3)))

(***************************************************************************)
(* C32: max_period() of a tree is the largest period() among the           *)
(* indicators found anywhere in it (If conditions, both branches, Sequence *)
(* children, Timeout inner nodes, nested And/Or/Not conditions), and is    *)
(* None when the tree holds no indicator.                                  *)
(***************************************************************************)
SetMax(S) == CHOOSE x \in S : \A y \in S : y <= x
TreePeriodsOf(n) == { IndicatorPeriod(w.indicator) : w \in NodeIndicators(n) }

C32_MaxPeriodIsLargest ==
    nlast = "max_period" =>
        nres.v = IF NodeIndicators(node) = {} THEN None ELSE Some(SetMax(TreePeriodsOf(node)))

C32_Witness ==
    /\ nlast = "max_period"
    /\ node.type = "If"
    /\ node.condition.type = "And"
    /\ IsSome(node.else_branch)
    /\ TreePeriodsOf(node.else_branch.v) = {3}
    /\ ConditionMaxPeriod(node.condition) = Some(2)
    /\ nres.v = Some(3)

(***************************************************************************)
(* C33: at the t-th input an Alligator line with shift s outputs the       *)
(* line's smoothed value computed at input t - s once t > s, and the value *)
(* computed at the first input while t <= s.                               *)
(***************************************************************************)
RECURSIVE SmmaFeed(_, _, _)
SmmaFeed(i, inputs, k) ==
    IF k = 0 THEN i ELSE SmmaNextF(SmmaFeed(i, inputs, k - 1), inputs[k]).ind

\* the output of a fresh SMMA of this period at the k-th of the inputs
SmmaAt(period, inputs, k) == SmmaNextF(SmmaFeed(SmmaNew(period), inputs, k - 1), inputs[k]).out

Delayed(period, shift) ==
    SmmaAt(period, gfed, IF Len(gfed) > shift THEN Len(gfed) - shift ELSE 1)

C33_LinesAreDelayed ==
    gfed # <<>> =>
        gout.v = << Delayed(gator.jaw.period, gator.jaw_buffer.period),
                    Delayed(gator.teeth.period, gator.teeth_buffer.period),
                    Delayed(gator.lips.period, gator.lips_buffer.period) >>

C33_Witness ==
    /\ gfed = <<F(1), F(3), F(2)>>
    /\ gator.jaw_buffer.period = 2
    /\ gator.teeth.period = 2
    /\ gator.teeth_buffer.period = 1
    /\ gator.lips_buffer.period = 3
    /\ gout = Some(<<F(1), F(2), F(1)>>)

(***************************************************************************)
(* C34: when a CrossOver/CrossUnder condition is evaluated on a bar, the   *)
(* previous value it compares against is the output its indicator had on   *)
(* the bar before, wherever the condition sits in the tree.  Fails behind  *)
(* an And/Or that stopped before reaching the condition on the bar before. *)
(***************************************************************************)
\* the leaves that evaluate() reaches, as paths of child indices
RECURSIVE EvaluatedPaths(_, _)
RECURSIVE EvaluatedIn(_, _, _, _)
EvaluatedIn(conds, i, stop, data) ==
    IF i > Len(conds) THEN {}
    ELSE { <<i>> \o p : p \in EvaluatedPaths(conds[i], data) }
         \cup (IF /\ ConditionEvaluate(conds[i], data).res.ok
                  /\ ConditionEvaluate(conds[i], data).res.v # stop
               THEN EvaluatedIn(conds, i + 1, stop, data) ELSE {})
EvaluatedPaths(c, data) ==
    CASE IsLeaf(c) -> IF ConditionEvaluate(c, data).res.ok THEN {<<>>} ELSE {}
      [] c.type = "And" -> EvaluatedIn(c.conds, 1, FALSE, data)
      [] c.type = "Or" -> EvaluatedIn(c.conds, 1, TRUE, data)
      [] c.type = "Not" -> { <<1>> \o p : p \in EvaluatedPaths(c.cond, data) }

RECURSIVE LeafAt(_, _)
LeafAt(c, path) ==
    IF path = <<>> THEN c
    ELSE IF c.type = "Not" THEN LeafAt(c.cond, Tail(path))
    ELSE LeafAt(c.conds[path[1]], Tail(path))

Lhs(c) == IF c.type = "Value" THEN c.indicator ELSE c.left

C34_CrossSeesPrecedingBar ==
    [][ clast' = "bar" =>
          \A p \in EvaluatedPaths(ConditionUpdate(cond, cbar'.v), cbar'.v) :
              (IsLeafCross(LeafAt(cond, p)) /\ IsSome(LeafAt(cond, p).operator.prev_value)) =>
                  LeafAt(cond, p).operator.prev_value = Lhs(LeafAt(cond, p)).previous_output ]_vars

(***************************************************************************)
(* C35: evaluate() is deterministic: for the same tree and the same bar it *)
(* returns the same action whatever order the HashMap of counts is         *)
(* iterated in.  Fails when actions tie in Majority mode or several meet   *)
(* the threshold in Percentage mode.                                       *)
(***************************************************************************)
C35_SameTreeSameAction ==
    (nlast = "evaluate" /\ IsSome(nargs)) =>
        \A order \in HashOrders :
            NodeEvaluate(nargs.v.node, nargs.v.data, order).res = nres.v

(***************************************************************************)
(* C36: median never panics on a non-empty input, NaNs included: the call  *)
(* ends in a value or in an error.  Fails when the input holds a NaN and   *)
(* the middle index, taken from the input's length, lies beyond the values *)
(* that are left.                                                          *)
(***************************************************************************)
C36_MedianNeverPanics == (IsSome(mres) /\ marg # <<>>) => "ok" \in DOMAIN mres.v

(***************************************************************************)
(* C37: a clone is an independent instance: whatever is done to the clone, *)
(* the original's outputs are those of an instance that was never cloned.  *)
(* Fails for CustomIndicator, whose clone shares the wrapped indicator.    *)
(***************************************************************************)
C37_CloneIsIndependent == oout = tout

(***************************************************************************)
(* C38: after a settled trade the tracked balance has changed by the       *)
(* amount staked on it, the amount the modifier returned: a loss subtracts *)
(* the staked amount, a win adds the payout minus the staked amount.       *)
(* Fails: update_statistics books the configured base amount.              *)
(***************************************************************************)
C38_BalanceFollowsStake ==
    IsSome(staked) =>
        /\ last_result.v.type = "Lose" => balance = RSub(before, staked.v)
        /\ last_result.v.type = "Win" =>
              balance = RAdd(before, RSub(last_result.v.payout, staked.v))

(***************************************************************************)
(* C39: a Martingale's current_doublings never exceeds max_doublings, and  *)
(* the multiplier it returns never exceeds multiplier^max_doublings.       *)
(***************************************************************************)
C39_DoublingsAreCapped ==
    modifier.type = "Martingale" =>
        /\ modifier.martingale.current_doublings <= modifier.martingale.max_doublings
        /\ IsSome(mult) =>
              ~RLt(RPow(modifier.martingale.multiplier, modifier.martingale.max_doublings), mult.v)

\* the cap is reached: a loss at max_doublings has been answered with 1.0
C39_Witness ==
    /\ modifier.type = "Martingale"
    /\ modifier.martingale.current_doublings = modifier.martingale.max_doublings
    /\ mult = Some(F(1))

====
